---------------------------- MODULE Spec2Model ----------------------------
(***************************************************************************)
(* Server-side request/response pipeline (SvelteKit server runtime).       *)
(*                                                                         *)
(* The module holds one state machine per component of the pipeline:       *)
(*   SpecPath    - pathname helpers (data suffix, trailing slash)          *)
(*   SpecCookies - the cookie jar of one request (get_cookies)             *)
(*   SpecCsp     - one CSP provider (BaseProvider)                         *)
(*   SpecRoute   - route selection in respond, with exec                   *)
(*   Spec        - one page request: respond / resolve / render_page /     *)
(*                 render_response                                         *)
(* Every component owns its variables; a component's specification keeps   *)
(* the other components' variables at their idle values.                   *)
(*                                                                         *)
(* Strings whose characters matter (pathnames, hostnames, cookie values,   *)
(* header values) are sequences of one-character strings.                  *)
(***************************************************************************)
EXTENDS Integers, Sequences, FiniteSets, TLC

VARIABLES
    \* ---- pathname helpers
    pathname,        \* the pathname given to the helpers
    path_value,      \* the value the pipeline of helpers has produced so far
    path_pc,         \* "start" | "stripped" | "added" | "normalized"
    trailing_slash   \* the policy handed to normalize_path

pathVars == <<pathname, path_value, path_pc, trailing_slash>>

VARIABLES
    \* ---- the cookie jar of one request (get_cookies)
    url,              \* the request URL: [hostname, pathname]
    header,           \* the request's Cookie header: a sequence of <<name, value>>
    initial_cookies,  \* parse(header), raw values
    new_cookies,      \* cookies set during the request, by name
    destination,      \* last get_cookie_header call: [hostname, pathname]
    override_header,  \* last get_cookie_header call: its header argument
    combined_cookies, \* last get_cookie_header call: the cookies it returned
    cookie_calls,     \* by name, the last cookies.set or cookies.delete call
    cookie_read,      \* last cookies.get call: [name, value]
    sub_fetch,        \* last event.fetch call: its inputs and the request it sent
    cookie_pc         \* "open" | "header" | "read" (a result is recorded)

cookieVars == <<url, header, initial_cookies, new_cookies, destination,
                override_header, combined_cookies, cookie_calls, cookie_read,
                sub_fetch, cookie_pc>>

VARIABLES
    \* ---- one CSP provider (BaseProvider) and the response's nonce
    use_hashes,        \* #use_hashes
    directives,        \* #directives: directive key -> source list | Undefined
    script_needs_csp,  \* #script_needs_csp
    style_needs_csp,   \* #style_needs_csp
    script_src,        \* #script_src: sources added for inline scripts
    style_src,         \* #style_src: sources added for inline styles
    nonce,             \* #nonce (Csp.nonce, generated once per response)
    inline_scripts,    \* the contents add_script was called with, in order
    inline_styles,     \* the contents add_style was called with, in order
    csp_header,        \* last get_header call: sequence of [key, values]
    csp_is_meta,       \* last get_header call: its is_meta argument
    csp_pc             \* "open" | "header" (a get_header result is recorded)

cspVars == <<use_hashes, directives, script_needs_csp, style_needs_csp, script_src,
             style_src, nonce, inline_scripts, inline_styles, csp_header,
             csp_is_meta, csp_pc>>

VARIABLES
    \* ---- route selection in respond
    routes,           \* manifest._.routes: sequence of [id, params]
    pattern_matches,  \* per route: candidate.pattern.exec(decoded), the captured
                      \* values or NoMatch
    route,            \* index of the selected route, 0 for null
    params,           \* the decoded parameters of the selected route
    route_pc          \* "start" | "matched"

routeVars == <<routes, pattern_matches, route, params, route_pc>>

VARIABLES
    \* ---- one page request (respond, resolve, render_page, render_response)
    request,          \* [method, accept]: the request's method and Accept header
    page,             \* route.page: [layouts, errors, leaf], node indexes
    action_run,       \* what the page's action did when call_action ran it
    action_result,    \* render_page: the ActionResult, type "none" before any
    status,           \* render_page: let status
    headers,          \* respond: the header accumulator written by setHeaders
    cookies_to_add,   \* respond: the cookies set during the request, by name
    server_promises,  \* render_page: per depth, the promise of load_server_data
    load_promises,    \* render_page: per depth, the promise of load_data
    branch,           \* render_page: the entries pushed by the await loop
    await_i,          \* render_page: the depth the await loop stands at (1-based)
    rendered,         \* the last render_response call: its arguments and payload
    response,         \* the response resolve hands to respond
    if_none_match,    \* the request's If-None-Match header, read by respond
    final_response,   \* the response respond returns
    page_pc           \* "start" | "loading" | "resolved" | "done"

pageVars == <<request, page, action_run, action_result, status, headers, cookies_to_add,
              server_promises, load_promises, branch, await_i, rendered, response,
              if_none_match, final_response, page_pc>>

VARIABLES
    \* ---- the event of one request and who holds it (respond, resolve)
    event_setHeaders, \* the function event.setHeaders holds: "write" | "throw"
    cookies_set_fn,   \* the function event.cookies.set holds: "store" | "throw"
    event_headers,    \* respond's `headers`, the accumulator setHeaders writes
    event_cookies,    \* get_cookies' new_cookies: name -> [value, maxAge]
    holders,          \* per load: [state, setHeaders], the reference it was given
    emitted,          \* what resolve's continuation put on the response
    last_call,        \* the last setHeaders / cookies.set / cookies.delete call
    event_pc          \* "idle" | "handle" | "resolve" | "resolved"

eventVars == <<event_setHeaders, cookies_set_fn, event_headers, event_cookies, holders,
               emitted, last_call, event_pc>>

VARIABLES
    \* ---- one data request (render_data)
    invalidated,      \* per node: whether its server data is asked for
    data_promises,    \* per node: the promise of its server data
    data_response,    \* the response render_data returns
    data_pc           \* "idle" | "loading" | "done"

dataVars == <<invalidated, data_promises, data_response, data_pc>>

VARIABLES
    \* ---- the chunks of one serialized payload (get_data, get_data_json)
    serializer,       \* "get_data" | "get_data_json"
    placeholders,     \* how many placeholder ids the initial payload holds
    thenables,        \* per id: where the handlers of that pending value stand
    promise_id,       \* let promise_id: the next id the serializer hands out
    count,            \* let count: the values counted as outstanding
    deferred,         \* create_async_iterator: let deferred
    delivered,        \* the chunks the consumer has read, in order
    closed            \* the consumer has read { done: true }

streamVars == <<serializer, placeholders, thenables, promise_id, count, deferred,
                delivered, closed>>

VARIABLES
    \* ---- one form action request (call_action and the two responders)
    act_accept,       \* the request's Accept header, <<>> when it has none
    act_content_type, \* the request's Content-Type header, <<>> when it has none
    act_query,        \* the keys of the request URL's query string, in order
    act_actions,      \* the page's actions: [exported, names]
    act_behaviour,    \* what an action of the page does when it is invoked
    act_invoked,      \* the names of the actions call_action invoked, in order
    act_run,          \* what call_action returned or threw
    act_result,       \* the ActionResult of handle_action_request
    act_response,     \* the Response resolve returns for a JSON action request
    act_reported,     \* the error handed to the handleError hook, if any
    act_pc            \* "idle" | "start" | "done"

actionVars == <<act_accept, act_content_type, act_query, act_actions, act_behaviour,
                act_invoked, act_run, act_result, act_response, act_reported,
                act_pc>>

VARIABLES
    \* ---- nested respond calls (create_fetch's in-process fetch)
    load_fetches,     \* the route the page's load fetches, "none" when it fetches nothing
    handler_fetches,  \* the route the endpoint's handler fetches, "none" likewise
    stack,            \* the respond calls in progress, outermost first
    finished,         \* the respond call that returned last
    fetch_pc          \* "idle" | "running" | "done"

fetchVars == <<load_fetches, handler_fetches, stack, finished, fetch_pc>>

VARIABLES
    \* ---- respond, from its first line to the call of the handle hook
    rq_check_origin,  \* options.csrf_check_origin
    rq_method,        \* request.method
    rq_content_type,  \* the Content-Type header, <<>> when the request has none
    rq_origin,        \* the Origin header, <<>> when the request has none
    rq_accept,        \* the Accept header, <<>> when the request has none
    rq_pathname,      \* url.pathname of the request URL
    rq_search,        \* url.search of the request URL
    rq_route,         \* the matched route, [matched, trailingSlash]
    rq_response,      \* the Response returned before the handle hook, if any
    rq_handle_called, \* options.hooks.handle was called
    rq_pc             \* "idle" | "start" | "done"

respondVars == <<rq_check_origin, rq_method, rq_content_type, rq_origin, rq_accept,
                 rq_pathname, rq_search, rq_route, rq_response, rq_handle_called,
                 rq_pc>>

VARIABLES
    \* ---- one error on its way to the client (handle_error_and_jsonify)
    er_error,         \* the error that was thrown
    er_hook,          \* what the handleError hook returns when it is called
    er_route_matched, \* event.route.id != null
    er_accept,        \* the request's Accept header, <<>> when it has none
    er_is_data,       \* event.isDataRequest
    er_hook_called,   \* the error handleError was called with, NoError if none
    er_body,          \* the App.Error that is serialized for the client
    er_response,      \* the Response of handle_fatal_error
    er_pc             \* "idle" | "start" | "done"

errorVars == <<er_error, er_hook, er_route_matched, er_accept, er_is_data,
               er_hook_called, er_body, er_response, er_pc>>

VARIABLES
    \* ---- one load result given to an encoder (devalue's uneval or stringify)
    dv_encoder,  \* "uneval" (documents) | "stringify" (data requests)
    dv_value,    \* the value the load returned
    dv_thrown,   \* the DevalueError the encoder threw, if it did
    dv_report,   \* the message of the error the caller throws in its place
    dv_pc        \* "idle" | "start" | "done"

devalueVars == <<dv_encoder, dv_value, dv_thrown, dv_report, dv_pc>>

\* ---- the server loads of one request's nodes and their parent() calls
VARIABLES
    pt_mode,        \* "data": render_data; "page": render_page
    pt_param,       \* the x-sveltekit-invalidated parameter of the data request
    pt_loads,       \* by depth: what the node's server load does
    pt_aborted,     \* render_data's `aborted`
    pt_fn,          \* by depth: the `done` and `result` of functions[i]
                    \* (render_data) or the state of server_promises[i]
    pt_runs,        \* by depth: how often the node's load function was invoked
    pt_parent,      \* by depth: the parent() call of the node's load
    pt_seen,        \* by depth: the results parent() lookups of the node saw
    pt_nodes,       \* the nodes render_data hands to get_data_json
    pt_redirected,  \* render_data answered with a redirect
    pt_pc

parentVars ==
    <<pt_mode, pt_param, pt_loads, pt_aborted, pt_fn, pt_runs, pt_parent, pt_seen,
      pt_nodes, pt_redirected, pt_pc>>

\* ---- one call of exec
VARIABLES
    ex_params,   \* the route's parameter descriptors
    ex_values,   \* match.slice(1): what the route's pattern captured
    ex_out,      \* what exec returned
    ex_pc        \* "idle" | "start" | "done"

execVars == <<ex_params, ex_values, ex_out, ex_pc>>

\* ---- one respond call, from the handle hook to what it settles to
VARIABLES
    st_route,     \* what the request resolves to: "page" | "data" | "endpoint" | "none"
    st_request,   \* [method, accept]
    st_run,       \* the page's action, were it called
    st_throws,    \* who throws what: [by, error]
    st_boundary,  \* an error boundary is declared above the depth that fails
    st_resolved,  \* the response resolve returned to the handle hook
    st_caught,    \* the value respond's catch received
    st_result,    \* the promise respond returned: [state, response, error]
    st_pc         \* "idle" | "handle" | "resolve" | "returning" | "caught" | "done"

settleVars == <<st_route, st_request, st_run, st_throws, st_boundary, st_resolved,
                st_caught, st_result, st_pc>>

vars ==
    <<pathVars, cookieVars, cspVars, routeVars, pageVars, eventVars, dataVars,
      streamVars, actionVars, fetchVars, respondVars, errorVars, devalueVars,
      parentVars, execVars, settleVars>>

\* what a component's actions leave alone: the other components' variables
notPathVars ==
    <<cookieVars, cspVars, routeVars, pageVars, eventVars, dataVars, streamVars,
      actionVars, fetchVars, respondVars, errorVars, devalueVars, parentVars, execVars,
      settleVars>>

notCookieVars ==
    <<pathVars, cspVars, routeVars, pageVars, eventVars, dataVars, streamVars,
      actionVars, fetchVars, respondVars, errorVars, devalueVars, parentVars, execVars,
      settleVars>>

notCspVars ==
    <<pathVars, cookieVars, routeVars, pageVars, eventVars, dataVars, streamVars,
      actionVars, fetchVars, respondVars, errorVars, devalueVars, parentVars, execVars,
      settleVars>>

notRouteVars ==
    <<pathVars, cookieVars, cspVars, pageVars, eventVars, dataVars, streamVars,
      actionVars, fetchVars, respondVars, errorVars, devalueVars, parentVars, execVars,
      settleVars>>

notPageVars ==
    <<pathVars, cookieVars, cspVars, routeVars, eventVars, dataVars, streamVars,
      actionVars, fetchVars, respondVars, errorVars, devalueVars, parentVars, execVars,
      settleVars>>

notEventVars ==
    <<pathVars, cookieVars, cspVars, routeVars, pageVars, dataVars, streamVars,
      actionVars, fetchVars, respondVars, errorVars, devalueVars, parentVars, execVars,
      settleVars>>

notDataVars ==
    <<pathVars, cookieVars, cspVars, routeVars, pageVars, eventVars, streamVars,
      actionVars, fetchVars, respondVars, errorVars, devalueVars, parentVars, execVars,
      settleVars>>

notStreamVars ==
    <<pathVars, cookieVars, cspVars, routeVars, pageVars, eventVars, dataVars,
      actionVars, fetchVars, respondVars, errorVars, devalueVars, parentVars, execVars,
      settleVars>>

notActionVars ==
    <<pathVars, cookieVars, cspVars, routeVars, pageVars, eventVars, dataVars,
      streamVars, fetchVars, respondVars, errorVars, devalueVars, parentVars, execVars,
      settleVars>>

notFetchVars ==
    <<pathVars, cookieVars, cspVars, routeVars, pageVars, eventVars, dataVars,
      streamVars, actionVars, respondVars, errorVars, devalueVars, parentVars,
      execVars, settleVars>>

notRespondVars ==
    <<pathVars, cookieVars, cspVars, routeVars, pageVars, eventVars, dataVars,
      streamVars, actionVars, fetchVars, errorVars, devalueVars, parentVars, execVars,
      settleVars>>

notErrorVars ==
    <<pathVars, cookieVars, cspVars, routeVars, pageVars, eventVars, dataVars,
      streamVars, actionVars, fetchVars, respondVars, devalueVars, parentVars,
      execVars, settleVars>>

notDevalueVars ==
    <<pathVars, cookieVars, cspVars, routeVars, pageVars, eventVars, dataVars,
      streamVars, actionVars, fetchVars, respondVars, errorVars, parentVars, execVars,
      settleVars>>

notParentVars ==
    <<pathVars, cookieVars, cspVars, routeVars, pageVars, eventVars, dataVars,
      streamVars, actionVars, fetchVars, respondVars, errorVars, devalueVars, execVars,
      settleVars>>

notExecVars ==
    <<pathVars, cookieVars, cspVars, routeVars, pageVars, eventVars, dataVars,
      streamVars, actionVars, fetchVars, respondVars, errorVars, devalueVars,
      parentVars, settleVars>>

notSettleVars ==
    <<pathVars, cookieVars, cspVars, routeVars, pageVars, eventVars, dataVars,
      streamVars, actionVars, fetchVars, respondVars, errorVars, devalueVars,
      parentVars, execVars>>

(***************************************************************************)
(* String helpers (JavaScript String methods)                              *)
(***************************************************************************)
Max(a, b) == IF a >= b THEN a ELSE b

Min(a, b) == IF a <= b THEN a ELSE b

\* String.prototype.endsWith
EndsWith(s, suffix) ==
    /\ Len(suffix) <= Len(s)
    /\ SubSeq(s, Len(s) - Len(suffix) + 1, Len(s)) = suffix

\* String.prototype.startsWith
StartsWith(s, prefix) ==
    /\ Len(prefix) <= Len(s)
    /\ SubSeq(s, 1, Len(prefix)) = prefix

\* s.slice(0, -n) for n > 0: drops the last n characters, "" when s is shorter
SliceOffEnd(s, n) == SubSeq(s, 1, Max(Len(s) - n, 0))

\* every string over alphabet A of length at most n
StringsUpTo(A, n) == UNION {[1..k -> A] : k \in 0..n}

(***************************************************************************)
(* Pathname helpers                                                        *)
(***************************************************************************)
DATA_SUFFIX == <<"/", "_", "_", "d", "a", "t", "a", ".", "j", "s", "o", "n">>

has_data_suffix(p) == EndsWith(p, DATA_SUFFIX)

\* pathname.replace(/\/$/, '') + DATA_SUFFIX
add_data_suffix(p) ==
    (IF EndsWith(p, <<"/">>) THEN SliceOffEnd(p, 1) ELSE p) \o DATA_SUFFIX

\* a plausible slip: an off-by-one in the number of characters dropped
strip_data_suffix_long(p) == SliceOffEnd(p, Len(DATA_SUFFIX) + 1)

\* pathname.slice(0, -DATA_SUFFIX.length): no check that the suffix is there
strip_data_suffix(p) == SliceOffEnd(p, Len(DATA_SUFFIX))

normalize_path(path, ts) ==
    IF path = <<"/">> \/ ts = "ignore" THEN path
    ELSE IF ts = "never"
         THEN (IF EndsWith(path, <<"/">>) THEN SliceOffEnd(path, 1) ELSE path)
    ELSE IF ts = "always" /\ ~EndsWith(path, <<"/">>) THEN path \o <<"/">>
    ELSE path

TrailingSlashPolicies == {"never", "always", "ignore"}

\* ---- bounds of the pathname inputs
MaxPathLen == 3

PathChars == {"/", "a", "b"}

\* pathnames: they start with a slash; with and without the data suffix
PlainPaths == {p \in StringsUpTo(PathChars, MaxPathLen) : Len(p) >= 1 /\ p[1] = "/"}

PathInputs == PlainPaths \cup {p \o DATA_SUFFIX : p \in PlainPaths \cup {<<>>}}

PathIdle ==
    /\ pathname = <<>>
    /\ path_value = <<>>
    /\ path_pc = "idle"
    /\ trailing_slash = "never"

PathInit ==
    /\ pathname \in PathInputs
    /\ path_value = pathname
    /\ path_pc = "start"
    /\ trailing_slash = "never"

StripDataSuffix ==
    /\ path_pc = "start"
    /\ path_value' = strip_data_suffix(path_value)
    /\ path_pc' = "stripped"
    /\ UNCHANGED <<pathname, trailing_slash>>
    /\ UNCHANGED notPathVars

AddDataSuffix ==
    /\ path_pc = "stripped"
    /\ path_value' = add_data_suffix(path_value)
    /\ path_pc' = "added"
    /\ UNCHANGED <<pathname, trailing_slash>>
    /\ UNCHANGED notPathVars

NormalizePath ==
    /\ path_pc = "added"
    /\ \E ts \in TrailingSlashPolicies :
          /\ trailing_slash' = ts
          /\ path_value' = normalize_path(path_value, ts)
    /\ path_pc' = "normalized"
    /\ UNCHANGED pathname
    /\ UNCHANGED notPathVars

PathNext == StripDataSuffix \/ AddDataSuffix \/ NormalizePath

(***************************************************************************)
(* C7 (as stated): for every pathname p other than "/",                    *)
(* normalize_path(add_data_suffix(strip_data_suffix(p)), 'ignore') = p.    *)
(* Violated: strip_data_suffix drops the last 12 characters whatever they  *)
(* are, so a pathname without the suffix ("/a") comes back as              *)
(* "/__data.json"; and a pathname with a slash before the suffix           *)
(* ("/a//__data.json") loses that slash.                                   *)
(***************************************************************************)
C7_RoundTripAnyPath ==
    (path_pc = "normalized" /\ trailing_slash = "ignore" /\ pathname # <<"/">>)
        => path_value = pathname

(***************************************************************************)
(* C7 (amended): for every pathname p that ends with the data suffix and   *)
(* whose part before the suffix does not end with a slash,                 *)
(* normalize_path(add_data_suffix(strip_data_suffix(p)), 'ignore') = p.    *)
(***************************************************************************)
C7_RoundTripDataPath ==
    (/\ path_pc = "normalized"
     /\ trailing_slash = "ignore"
     /\ EndsWith(pathname, DATA_SUFFIX)
     /\ ~EndsWith(SubSeq(pathname, 1, Len(pathname) - Len(DATA_SUFFIX)), <<"/">>))
        => path_value = pathname

C7_Witness ==
    /\ path_pc = "normalized"
    /\ trailing_slash = "ignore"
    /\ EndsWith(pathname, DATA_SUFFIX)
    /\ Len(pathname) > Len(DATA_SUFFIX) + 1
    /\ path_value = pathname

(***************************************************************************)
(* Cookie jar (get_cookies)                                                *)
(***************************************************************************)
\* a value that is `undefined` in the source (never a string of characters)
Undefined == <<"undefined">>

\* !constraint : undefined or the empty string
Falsy(s) == s = Undefined \/ s = <<>>

\* a plausible slip: the suffix compared without the separating dot
domain_matches_nodot(hostname, constraint) ==
    IF Falsy(constraint) THEN TRUE
    ELSE LET normalized == IF constraint[1] = "." THEN Tail(constraint) ELSE constraint
         IN  hostname = normalized \/ EndsWith(hostname, normalized)

domain_matches(hostname, constraint) ==
    IF Falsy(constraint) THEN TRUE
    ELSE LET normalized == IF constraint[1] = "." THEN Tail(constraint) ELSE constraint
         IN  hostname = normalized \/ EndsWith(hostname, <<".">> \o normalized)

path_matches(path, constraint) ==
    IF Falsy(constraint) THEN TRUE
    ELSE LET normalized == IF EndsWith(constraint, <<"/">>)
                           THEN SliceOffEnd(constraint, 1) ELSE constraint
         IN  path = normalized \/ StartsWith(path, normalized \o <<"/">>)

\* index of the last "/" of p, 0 when there is none
RECURSIVE LastSlash(_, _)
LastSlash(p, i) == IF i = 0 THEN 0 ELSE IF p[i] = "/" THEN i ELSE LastSlash(p, i - 1)

\* normalized_url.split('/').slice(0, -1).join('/') || '/'
default_path(pathname_, ts) ==
    LET normalized_url == normalize_path(pathname_, ts)
        cut == LastSlash(normalized_url, Len(normalized_url))
        parent == SubSeq(normalized_url, 1, cut - 1)
    IN  IF parent = <<>> THEN <<"/">> ELSE parent

\* encodeURIComponent, on the characters cookie values are made of here
EncodeChar(c) == IF c = " " THEN <<"%", "2", "0">> ELSE <<c>>

RECURSIVE encodeURIComponent(_)
encodeURIComponent(s) ==
    IF s = <<>> THEN <<>> ELSE EncodeChar(Head(s)) \o encodeURIComponent(Tail(s))

\* decodeURIComponent, on the escapes cookie values are made of here
RECURSIVE decode(_)
decode(s) ==
    IF s = <<>> THEN <<>>
    ELSE IF Len(s) >= 3 /\ SubSeq(s, 1, 3) = <<"%", "2", "0">>
         THEN <<" ">> \o decode(SubSeq(s, 4, Len(s)))
         ELSE <<Head(s)>> \o decode(Tail(s))

\* parse(header, { decode: (value) => value }): a name's first pair wins
RECURSIVE parse(_)
parse(pairs) ==
    IF pairs = <<>> THEN <<>>
    ELSE LET rest == parse(Tail(pairs))
             name == Head(pairs)[1]
         IN  [n \in DOMAIN rest \cup {name} |->
                 IF n = name THEN Head(pairs)[2] ELSE rest[n]]

\* obj with obj[key] = value (JavaScript property assignment)
Assign(obj, key, value) ==
    [k \in DOMAIN obj \cup {key} |-> IF k = key THEN value ELSE obj[k]]

EmptyObject == <<>>

\* cookies.set(name, value, opts): opts = [domain, path, maxAge]
SetCookie(jar, name, value, opts) ==
    LET path == IF opts.path = Undefined
                THEN default_path(url.pathname, "never") ELSE opts.path
    IN  Assign(jar, name,
               [name |-> name, value |-> value,
                options |-> [httpOnly |-> TRUE, sameSite |-> "lax", secure |-> TRUE,
                             domain |-> opts.domain, maxAge |-> opts.maxAge,
                             path |-> path]])

\* a plausible slip: the new cookie returned whatever its scope
cookies_get_any_scope(name) ==
    IF name \in DOMAIN new_cookies THEN new_cookies[name].value
    ELSE IF name \in DOMAIN parse(header) THEN decode(parse(header)[name])
    ELSE Undefined

\* cookies.get(name): the new cookie when it applies to the request URL, else
\* parse(header, { decode: decodeURIComponent })[name]
cookies_get(name) ==
    IF /\ name \in DOMAIN new_cookies
       /\ domain_matches(url.hostname, new_cookies[name].options.domain)
       /\ path_matches(url.pathname, new_cookies[name].options.path)
    THEN new_cookies[name].value
    ELSE IF name \in DOMAIN parse(header) THEN decode(parse(header)[name])
    ELSE Undefined

\* the loop over new_cookies in get_cookie_header, over the names in `todo`
RECURSIVE ApplyNewCookies(_, _, _)
ApplyNewCookies(combined, todo, dest) ==
    IF todo = {} THEN combined
    ELSE LET key == CHOOSE k \in todo : TRUE
             cookie == new_cookies[key]
             skip == \/ ~domain_matches(dest.hostname, cookie.options.domain)
                     \/ ~path_matches(dest.pathname, cookie.options.path)
             next == IF skip THEN combined
                     ELSE Assign(combined, cookie.name, encodeURIComponent(cookie.value))
         IN  ApplyNewCookies(next, todo \ {key}, dest)

\* the loop over the parsed override header
RECURSIVE ApplyParsed(_, _, _)
ApplyParsed(combined, parsed, todo) ==
    IF todo = {} THEN combined
    ELSE LET name == CHOOSE k \in todo : TRUE
         IN  ApplyParsed(Assign(combined, name, parsed[name]), parsed, todo \ {name})

\* a plausible slip: the request's cookies spread last, over the other sources
get_cookie_header_request_last(dest, hdr) ==
    LET with_new == ApplyNewCookies(EmptyObject, DOMAIN new_cookies, dest)
        with_header == IF hdr # Undefined /\ hdr # <<>>
                       THEN ApplyParsed(with_new, parse(hdr), DOMAIN parse(hdr))
                       ELSE with_new
    IN  ApplyParsed(with_header, initial_cookies, DOMAIN initial_cookies)

\* get_cookie_header(destination, header): the combined cookies by name
get_cookie_header(dest, hdr) ==
    LET with_new == ApplyNewCookies(initial_cookies, DOMAIN new_cookies, dest)
    IN  IF hdr # Undefined /\ hdr # <<>>
        THEN ApplyParsed(with_new, parse(hdr), DOMAIN parse(hdr))
        ELSE with_new

\* the request URL has the default port: url.origin === event.url.origin
IsSameOrigin(dest) == dest.hostname = url.hostname /\ dest.port = <<>>

\* a plausible slip: the hostnames compared without the leading dot
fetch_request_nodot(dest, credentials, own, authorization, is_asset) ==
    IF ~IsSameOrigin(dest)
    THEN IF EndsWith(dest.hostname, url.hostname) /\ credentials # "omit"
         THEN LET cookie == get_cookie_header(dest, own.cookie)
              IN  [cookie |-> IF DOMAIN cookie # {} THEN cookie ELSE parse(own.cookie),
                   cookie_set |-> DOMAIN cookie # {},
                   authorization |-> own.authorization, to |-> "network"]
         ELSE [cookie |-> parse(own.cookie), cookie_set |-> FALSE,
               authorization |-> own.authorization, to |-> "network"]
    ELSE IF is_asset
    THEN [cookie |-> parse(own.cookie), cookie_set |-> FALSE,
          authorization |-> own.authorization, to |-> "asset"]
    ELSE IF credentials # "omit"
    THEN LET cookie == get_cookie_header(dest, own.cookie)
         IN  [cookie |-> IF DOMAIN cookie # {} THEN cookie ELSE parse(own.cookie),
              cookie_set |-> DOMAIN cookie # {},
              authorization |-> IF authorization # Undefined
                                   /\ own.authorization = Undefined
                                THEN authorization ELSE own.authorization,
              to |-> "respond"]
    ELSE [cookie |-> parse(own.cookie), cookie_set |-> FALSE,
          authorization |-> own.authorization, to |-> "respond"]

\* the fetch create_fetch hands to handleFetch, up to the request it passes
\* on: its cookie header by name (the combined cookies, or what the caller
\* gave), whether request.headers.set('cookie', ...) ran, its authorization
\* header, and where the request goes
fetch_request(dest, credentials, own, authorization, is_asset) ==
    IF ~IsSameOrigin(dest)
    THEN \* `.${url.hostname}`.endsWith(`.${event.url.hostname}`) && credentials !== 'omit'
         IF EndsWith(<<".">> \o dest.hostname, <<".">> \o url.hostname)
            /\ credentials # "omit"
         THEN LET cookie == get_cookie_header(dest, own.cookie)
              IN  [cookie |-> IF DOMAIN cookie # {} THEN cookie ELSE parse(own.cookie),
                   cookie_set |-> DOMAIN cookie # {},
                   authorization |-> own.authorization, to |-> "network"]
         ELSE [cookie |-> parse(own.cookie), cookie_set |-> FALSE,
               authorization |-> own.authorization, to |-> "network"]
    ELSE IF is_asset
    THEN [cookie |-> parse(own.cookie), cookie_set |-> FALSE,
          authorization |-> own.authorization, to |-> "asset"]
    ELSE IF credentials # "omit"
    THEN LET cookie == get_cookie_header(dest, own.cookie)
         IN  [cookie |-> IF DOMAIN cookie # {} THEN cookie ELSE parse(own.cookie),
              cookie_set |-> DOMAIN cookie # {},
              authorization |-> IF authorization # Undefined
                                   /\ own.authorization = Undefined
                                THEN authorization ELSE own.authorization,
              to |-> "respond"]
    ELSE [cookie |-> parse(own.cookie), cookie_set |-> FALSE,
          authorization |-> own.authorization, to |-> "respond"]

\* ---- inputs
CookieNames == {"sid", "theme"}

CookieValues == {<<"v">>, <<"w", " ">>}

CookieDomains == {Undefined, <<"b", ".", "a">>, <<".", "b", ".", "a">>}

CookiePaths == {Undefined, <<>>, <<"/">>, <<"/", "a">>, <<"/", "a", "/">>}

RequestHeaders ==
    { <<>>,
      << <<"sid", <<"r">>>> >>,
      << <<"sid", <<"r">>>>, <<"theme", <<"t", "%", "2", "0">>>>, <<"sid", <<"x">>>> >> }

OverrideHeaders ==
    { Undefined, <<>>,
      << <<"sid", <<"h">>>> >>,
      << <<"theme", <<"h">>>>, <<"theme", <<"g">>>> >> }

RequestPathnames == {<<"/", "a", "/", "b">>, <<"/", "b">>}

RequestHostname == <<"b", ".", "a">>

DestinationHostnames ==
    { <<"b", ".", "a">>, <<"c", ".", "b", ".", "a">>, <<"c", "b", ".", "a">>,
      <<"d", ".", "e">> }

DestinationPathnames ==
    { <<"/">>, <<"/", "a">>, <<"/", "a", "/", "b">>, <<"/", "a", "b">>, <<"/", "b">> }

NothingRead == [name |-> "", value |-> Undefined]

\* the request is https://b.a/...; destinations on the same origin, the same
\* host and another port, a subdomain, the parent domain, a host that only
\* ends with the same letters, and an unrelated host
FetchDestinations ==
    { [hostname |-> <<"b", ".", "a">>, port |-> <<>>, pathname |-> <<"/", "a">>],
      [hostname |-> <<"b", ".", "a">>, port |-> <<"8", "4", "4", "3">>, pathname |-> <<"/", "a">>],
      [hostname |-> <<"c", ".", "b", ".", "a">>, port |-> <<>>, pathname |-> <<"/", "a">>],
      [hostname |-> <<"a">>, port |-> <<>>, pathname |-> <<"/", "a">>],
      [hostname |-> <<"c", "b", ".", "a">>, port |-> <<>>, pathname |-> <<"/", "a">>],
      [hostname |-> <<"d", ".", "e">>, port |-> <<>>, pathname |-> <<"/", "a">>] }

\* init.credentials ?? 'same-origin'
Credentials == {"same-origin", "include", "omit"}

\* the cookie header (its pairs, none when absent) and the authorization
\* header the caller put on its request
CallerHeaders ==
    { [cookie |-> <<>>, authorization |-> Undefined],
      [cookie |-> << <<"sid", <<"h">>>> >>, authorization |-> Undefined],
      [cookie |-> <<>>, authorization |-> <<"o">>] }

\* event.request.headers.get('authorization')
EventAuthorizations == {Undefined, <<"k">>}

NothingFetched ==
    [destination |-> [hostname |-> <<>>, port |-> <<>>, pathname |-> <<>>],
     credentials |-> "same-origin",
     own |-> [cookie |-> <<>>, authorization |-> Undefined],
     authorization |-> Undefined, is_asset |-> FALSE,
     request |-> [cookie |-> EmptyObject, cookie_set |-> FALSE,
                  authorization |-> Undefined, to |-> "network"]]

CookieIdle ==
    /\ url = [hostname |-> <<>>, pathname |-> <<>>]
    /\ header = <<>>
    /\ initial_cookies = EmptyObject
    /\ new_cookies = EmptyObject
    /\ destination = [hostname |-> <<>>, pathname |-> <<>>]
    /\ override_header = Undefined
    /\ combined_cookies = EmptyObject
    /\ cookie_calls = EmptyObject
    /\ cookie_read = NothingRead
    /\ sub_fetch = NothingFetched
    /\ cookie_pc = "idle"

\* get_cookies(request, url, trailing_slash)
CookieInit ==
    /\ url \in [hostname : {RequestHostname}, pathname : RequestPathnames]
    /\ header \in RequestHeaders
    /\ initial_cookies = parse(header)
    /\ new_cookies = EmptyObject
    /\ destination = [hostname |-> <<>>, pathname |-> <<>>]
    /\ override_header = Undefined
    /\ combined_cookies = EmptyObject
    /\ cookie_calls = EmptyObject
    /\ cookie_read = NothingRead
    /\ sub_fetch = NothingFetched
    /\ cookie_pc = "open"

\* get_cookie_header leaves the jar as it is: a run records one call of it and
\* ends there (every jar reachable after a call is reachable without it)
CookiesSet ==
    /\ cookie_pc = "open"
    /\ \E name \in CookieNames, value \in CookieValues,
          domain \in CookieDomains, path \in CookiePaths :
          /\ new_cookies' = SetCookie(new_cookies, name, value,
                                      [domain |-> domain, path |-> path,
                                       maxAge |-> Undefined])
          /\ cookie_calls' = Assign(cookie_calls, name,
                                    [call |-> "set", value |-> value,
                                     domain |-> domain, path |-> path])
    /\ UNCHANGED <<url, header, initial_cookies, destination, override_header,
                   combined_cookies, cookie_read, sub_fetch, cookie_pc>>
    /\ UNCHANGED notCookieVars

\* cookies.delete(name, opts) is cookies.set(name, '', {...opts, maxAge: 0})
CookiesDelete ==
    /\ cookie_pc = "open"
    /\ \E name \in CookieNames, path \in {Undefined, <<"/">>} :
          /\ new_cookies' = SetCookie(new_cookies, name, <<>>,
                                      [domain |-> Undefined, path |-> path, maxAge |-> 0])
          /\ cookie_calls' = Assign(cookie_calls, name,
                                    [call |-> "delete", value |-> <<>>,
                                     domain |-> Undefined, path |-> path])
    /\ UNCHANGED <<url, header, initial_cookies, destination, override_header,
                   combined_cookies, cookie_read, sub_fetch, cookie_pc>>
    /\ UNCHANGED notCookieVars

GetCookieHeader ==
    /\ cookie_pc = "open"
    /\ \E host \in DestinationHostnames, path \in DestinationPathnames,
          hdr \in OverrideHeaders :
          /\ destination' = [hostname |-> host, pathname |-> path]
          /\ override_header' = hdr
          /\ combined_cookies' = get_cookie_header(destination', hdr)
    /\ cookie_pc' = "header"
    /\ UNCHANGED <<url, header, initial_cookies, new_cookies, cookie_calls,
                   cookie_read, sub_fetch>>
    /\ UNCHANGED notCookieVars

\* cookies.get(name) leaves the jar as it is: a run records one call of it
CookiesGet ==
    /\ cookie_pc = "open"
    /\ \E name \in CookieNames :
          cookie_read' = [name |-> name, value |-> cookies_get(name)]
    /\ cookie_pc' = "read"
    /\ UNCHANGED <<url, header, initial_cookies, new_cookies, destination,
                   override_header, combined_cookies, cookie_calls, sub_fetch>>
    /\ UNCHANGED notCookieVars

\* event.fetch(info, init) up to the request it hands on: a run records one
\* call of it (the jar is left as it is)
SubFetch ==
    /\ cookie_pc = "open"
    /\ \E dest \in FetchDestinations, credentials \in Credentials,
          own \in CallerHeaders, authorization \in EventAuthorizations,
          is_asset \in BOOLEAN :
          /\ is_asset => IsSameOrigin(dest)
          /\ sub_fetch' = [destination |-> dest, credentials |-> credentials,
                           own |-> own, authorization |-> authorization,
                           is_asset |-> is_asset,
                           request |-> fetch_request(dest, credentials, own,
                                                     authorization, is_asset)]
    /\ cookie_pc' = "fetched"
    /\ UNCHANGED <<url, header, initial_cookies, new_cookies, destination,
                   override_header, combined_cookies, cookie_calls, cookie_read>>
    /\ UNCHANGED notCookieVars

CookieNext ==
    CookiesSet \/ CookiesDelete \/ GetCookieHeader \/ CookiesGet \/ SubFetch

\* ---- what the claims about the cookie header speak of
\* the names the override header of the recorded call carries
OverrideNames ==
    IF override_header = Undefined
    THEN {} ELSE {override_header[i][1] : i \in DOMAIN override_header}

\* the value of the first pair of the override header that names `name`
OverrideValue(name) ==
    LET first == CHOOSE i \in DOMAIN override_header :
                    /\ override_header[i][1] = name
                    /\ \A j \in 1..(i - 1) : override_header[j][1] # name
    IN  override_header[first][2]

\* the combined header carries the cookie that was set under `name`
IncludesNewCookie(name) ==
    /\ name \in DOMAIN combined_cookies
    /\ combined_cookies[name] = encodeURIComponent(new_cookies[name].value)

\* d without one leading dot
NoLeadingDot(d) == IF d # <<>> /\ d[1] = "." THEN SubSeq(d, 2, Len(d)) ELSE d

\* p without one trailing slash
NoTrailingSlash(p) == IF p # <<>> /\ p[Len(p)] = "/" THEN SubSeq(p, 1, Len(p) - 1) ELSE p

\* s is t, or s is t followed by `sep` and more
IsOrExtends(s, t, sep) ==
    \/ s = t
    \/ /\ Len(s) > Len(t)
       /\ \A i \in 1..Len(t) : s[i] = t[i]
       /\ s[Len(t) + 1] = sep

\* s is t, or s is more, followed by `sep` and t
IsOrEndsWith(s, t, sep) ==
    \/ s = t
    \/ /\ Len(s) > Len(t)
       /\ \A i \in 1..Len(t) : s[Len(s) - Len(t) + i] = t[i]
       /\ s[Len(s) - Len(t)] = sep

(***************************************************************************)
(* C8 (as stated, for cookies that were set with a domain): the combined   *)
(* header includes a cookie set during this request if and only if the     *)
(* destination hostname equals the cookie's domain (leading dot stripped)  *)
(* or ends with '.'+domain, and the destination path equals the cookie's   *)
(* path or starts with path+'/'.                                           *)
(* Violated: path_matches strips a trailing slash from the cookie's path   *)
(* first, so a cookie with path "/" is included for destination "/b" (and  *)
(* one with path "/a/" for "/a"), which the stated condition excludes.     *)
(***************************************************************************)
C8_IncludedIffLiteralMatch ==
    cookie_pc = "header" =>
        \A name \in DOMAIN new_cookies :
            LET c == new_cookies[name] IN
            (name \notin OverrideNames /\ c.options.domain # Undefined) =>
                (IncludesNewCookie(name) <=>
                    /\ IsOrEndsWith(destination.hostname,
                                    NoLeadingDot(c.options.domain), ".")
                    /\ \/ destination.pathname = c.options.path
                       \/ StartsWith(destination.pathname, c.options.path \o <<"/">>))

(***************************************************************************)
(* C8 (amended): the combined header includes a cookie set during this     *)
(* request (and not named by the override header) if and only if           *)
(*  - the cookie has no domain, or the destination hostname equals the     *)
(*    domain (leading dot stripped) or ends with '.'+domain, and           *)
(*  - the cookie's path is empty, or the destination path equals the       *)
(*    cookie's path with one trailing slash stripped, or starts with that  *)
(*    stripped path followed by '/'.                                       *)
(* So a cookie with path=/a is in for /a/b and out for /b and /ab, one     *)
(* with path=/ is in for every path, one with domain=b.a is in for c.b.a   *)
(* and out for cb.a and d.e.                                               *)
(***************************************************************************)
C8_IncludedIffScopeMatches ==
    cookie_pc = "header" =>
        \A name \in DOMAIN new_cookies :
            LET c == new_cookies[name] IN
            name \notin OverrideNames =>
                (IncludesNewCookie(name) <=>
                    /\ \/ c.options.domain = Undefined
                       \/ IsOrEndsWith(destination.hostname,
                                       NoLeadingDot(c.options.domain), ".")
                    /\ \/ c.options.path = <<>>
                       \/ IsOrExtends(destination.pathname,
                                      NoTrailingSlash(c.options.path), "/"))

C8_Witness ==
    /\ cookie_pc = "header"
    /\ override_header = Undefined
    /\ DOMAIN new_cookies = {"sid"}
    /\ new_cookies["sid"].options.domain = <<"b", ".", "a">>
    /\ new_cookies["sid"].options.path = <<"/", "a">>
    /\ destination = [hostname |-> <<"c", ".", "b", ".", "a">>,
                      pathname |-> <<"/", "a", "/", "b">>]
    /\ IncludesNewCookie("sid")

(***************************************************************************)
(* C9: for every cookie name, the value in the combined per-destination    *)
(* header is the override header's value if that header names the cookie,  *)
(* else the (encoded) value of the cookie set during this request if one   *)
(* exists and its domain and path match the destination, else the raw      *)
(* value from the request's Cookie header; with none of the three the name *)
(* is absent.                                                              *)
(***************************************************************************)
C9_CookiePrecedence ==
    cookie_pc = "header" =>
        \A name \in CookieNames :
            IF name \in OverrideNames
            THEN /\ name \in DOMAIN combined_cookies
                 /\ combined_cookies[name] = OverrideValue(name)
            ELSE IF /\ name \in DOMAIN new_cookies
                    /\ domain_matches(destination.hostname,
                                      new_cookies[name].options.domain)
                    /\ path_matches(destination.pathname,
                                    new_cookies[name].options.path)
            THEN IncludesNewCookie(name)
            ELSE IF name \in DOMAIN initial_cookies
            THEN /\ name \in DOMAIN combined_cookies
                 /\ combined_cookies[name] = initial_cookies[name]
            ELSE name \notin DOMAIN combined_cookies

C9_Witness ==
    /\ cookie_pc = "header"
    /\ "sid" \in OverrideNames
    /\ "sid" \in DOMAIN new_cookies
    /\ "sid" \in DOMAIN initial_cookies
    /\ "theme" \in DOMAIN new_cookies
    /\ IncludesNewCookie("theme")
    /\ "theme" \in DOMAIN initial_cookies
    /\ domain_matches(destination.hostname, new_cookies["sid"].options.domain)
    /\ path_matches(destination.pathname, new_cookies["sid"].options.path)
    /\ combined_cookies["sid"] = <<"h">>

\* ---- what the claim about cookies.get speaks of
\* the path of the cookie the last call for `name` made
LastCallPath(name) ==
    IF cookie_calls[name].path = Undefined
    THEN default_path(url.pathname, "never") ELSE cookie_calls[name].path

\* the cookie of the last call for `name` applies to the request URL
LastCallApplies(name) ==
    /\ name \in DOMAIN cookie_calls
    /\ domain_matches(url.hostname, cookie_calls[name].domain)
    /\ path_matches(url.pathname, LastCallPath(name))

\* the decoded value of the first pair of the request's Cookie header for name
RECURSIVE RequestCookie(_, _)
RequestCookie(pairs, name) ==
    IF pairs = <<>> THEN Undefined
    ELSE IF Head(pairs)[1] = name THEN decode(Head(pairs)[2])
    ELSE RequestCookie(Tail(pairs), name)

\* the number of set-cookie lines add_cookies_to_headers appends for `name`
\* (one headers.append per value of new_cookies)
SetCookieLines(name) ==
    Cardinality({k \in DOMAIN new_cookies : new_cookies[k].name = name})

(***************************************************************************)
(* C39: after any sequence of cookies.set and cookies.delete calls,        *)
(* cookies.get(name) returns the value of the last set for that name when  *)
(* that cookie's domain and path match the request URL (the empty string   *)
(* after a delete), and otherwise the decoded value from the request's     *)
(* Cookie header; new_cookies holds at most one entry per name, so at most *)
(* one Set-Cookie header is emitted per cookie name.                       *)
(***************************************************************************)
C39_GetReturnsLastSet ==
    /\ cookie_pc = "read" =>
          cookie_read.value =
              IF LastCallApplies(cookie_read.name)
              THEN IF cookie_calls[cookie_read.name].call = "delete" THEN <<>>
                   ELSE cookie_calls[cookie_read.name].value
              ELSE RequestCookie(header, cookie_read.name)
    /\ \A name \in CookieNames : SetCookieLines(name) <= 1

\* a cookie set twice and then read: the second value, though the request
\* sent another one
C39_Witness ==
    /\ cookie_pc = "read"
    /\ cookie_read.name = "sid"
    /\ "sid" \in DOMAIN cookie_calls
    /\ cookie_calls["sid"].call = "set"
    /\ LastCallApplies("sid")
    /\ cookie_read.value = <<"w", " ">>
    /\ RequestCookie(header, "sid") = <<"r">>
    /\ SetCookieLines("sid") = 1
    /\ "theme" \in DOMAIN new_cookies

\* a cookie set for another path: the request's own value, decoded
C39_OutOfScope ==
    /\ cookie_pc = "read"
    /\ cookie_read.name = "theme"
    /\ "theme" \in DOMAIN cookie_calls
    /\ ~LastCallApplies("theme")
    /\ cookie_read.value = <<"t", " ">>

\* a deleted cookie reads as the empty string
C39_Deleted ==
    /\ cookie_pc = "read"
    /\ cookie_read.name \in DOMAIN cookie_calls
    /\ cookie_calls[cookie_read.name].call = "delete"
    /\ RequestCookie(header, cookie_read.name) # Undefined
    /\ cookie_read.value = <<>>

\* ---- what the claim about the sub-fetch proxy speaks of
Fetched == cookie_pc = "fetched"

\* the destination's hostname is the request's or a subdomain of it
SameHostOrSubdomain(dest) ==
    \/ dest.hostname = url.hostname
    \/ EndsWith(dest.hostname, <<".">> \o url.hostname)

(***************************************************************************)
(* C37: the sub-fetch proxy adds the request's cookies to an outgoing      *)
(* request only when credentials is not 'omit' and the destination is      *)
(* same-origin or its hostname equals the request's hostname or is a       *)
(* subdomain of it; for a destination on a parent domain, a sibling domain *)
(* or an unrelated host it never adds a cookie header, and it never        *)
(* forwards the authorization header to a cross-origin destination.        *)
(***************************************************************************)
C37_CookiesOnlyToOwnHosts ==
    Fetched =>
        /\ sub_fetch.request.cookie_set =>
              /\ sub_fetch.credentials # "omit"
              /\ \/ IsSameOrigin(sub_fetch.destination)
                 \/ SameHostOrSubdomain(sub_fetch.destination)
        /\ ~SameHostOrSubdomain(sub_fetch.destination) =>
              /\ ~sub_fetch.request.cookie_set
              /\ sub_fetch.request.cookie = parse(sub_fetch.own.cookie)
        /\ ~IsSameOrigin(sub_fetch.destination) =>
              sub_fetch.request.authorization = sub_fetch.own.authorization

\* a subdomain gets the cookies of the request, and not its authorization
C37_Witness ==
    /\ Fetched
    /\ sub_fetch.destination.hostname = <<"c", ".", "b", ".", "a">>
    /\ sub_fetch.credentials = "include"
    /\ sub_fetch.request.cookie_set
    /\ "sid" \in DOMAIN sub_fetch.request.cookie
    /\ sub_fetch.authorization = <<"k">>
    /\ sub_fetch.request.authorization = Undefined

\* the request has cookies and an authorization header, and a host that only
\* ends with the same letters gets none of them
C37_SiblingGetsNothing ==
    /\ Fetched
    /\ sub_fetch.destination.hostname = <<"c", "b", ".", "a">>
    /\ sub_fetch.credentials = "include"
    /\ DOMAIN initial_cookies # {}
    /\ sub_fetch.authorization = <<"k">>
    /\ ~sub_fetch.request.cookie_set
    /\ DOMAIN sub_fetch.request.cookie = {}
    /\ sub_fetch.request.authorization = Undefined

\* a same-origin request gets the cookies and the authorization header
C37_SameOriginGetsBoth ==
    /\ Fetched
    /\ IsSameOrigin(sub_fetch.destination)
    /\ sub_fetch.request.to = "respond"
    /\ sub_fetch.request.cookie_set
    /\ sub_fetch.request.authorization = <<"k">>

(***************************************************************************)
(* CSP provider (BaseProvider)                                             *)
(***************************************************************************)
\* a source expression: what kind of token it is, and its text
Source(kind, text) == [kind |-> kind, text |-> text]

\* a directive the configuration does not set (`undefined`, never a source list)
NoSources == <<Source("undefined", "")>>

Self == Source("keyword", "self")

UnsafeInline == Source("keyword", "unsafe-inline")

None == Source("keyword", "none")

CdnHost == Source("host", "cdn.example")

ReportUrl == Source("host", "/csp-report")

\* the keywords of the `quoted` set
quoted ==
    {"self", "unsafe-eval", "unsafe-hashes", "unsafe-inline", "none",
     "strict-dynamic", "report-sample", "wasm-unsafe-eval", "script"}

\* crypto_pattern = /^(nonce|sha\d\d\d)-/ on a source
crypto_pattern(source) == source.kind \in {"nonce", "sha256"}

\* sha256(content), base64: one digest per content
sha256(content) == content \o "-digest"

\* the directive keys of a configuration, in the order the object lists them
DirectiveKeys ==
    <<"default-src", "script-src", "style-src", "frame-ancestors", "report-uri">>

\* d['script-src'] || d['default-src'] : an empty list is truthy
Effective(d, key) == IF d[key] # NoSources THEN d[key] ELSE d["default-src"]

\* !!effective && effective.filter((value) => value !== 'unsafe-inline').length > 0
needs_csp(effective) ==
    /\ effective # NoSources
    /\ \E i \in DOMAIN effective : effective[i] # UnsafeInline

\* a plausible slip: the nonce pushed for every inline script
add_script_src_every_time(src, content) ==
    IF script_needs_csp
    THEN IF use_hashes
         THEN Append(src, Source("sha256", sha256(content)))
         ELSE Append(src, Source("nonce", nonce))
    ELSE src

\* the hash pushed only while #script_src is empty, as the nonce is: a variant
\* of add_script that lists one digest however many scripts were added
add_script_src_first_hash_only(src, content) ==
    IF script_needs_csp /\ Len(src) = 0
    THEN IF use_hashes
         THEN Append(src, Source("sha256", sha256(content)))
         ELSE Append(src, Source("nonce", nonce))
    ELSE src

\* add_script(content): #script_src afterwards
add_script_src(src, content) ==
    IF script_needs_csp
    THEN IF use_hashes
         THEN Append(src, Source("sha256", sha256(content)))
         ELSE IF Len(src) = 0 THEN Append(src, Source("nonce", nonce)) ELSE src
    ELSE src

\* add_style(content): #style_src afterwards
add_style_src(src, content) ==
    IF style_needs_csp
    THEN IF use_hashes
         THEN Append(src, Source("sha256", sha256(content)))
         ELSE IF Len(src) = 0 THEN Append(src, Source("nonce", nonce)) ELSE src
    ELSE src

\* directives['x-src'] || directives['default-src'] || []
EffectiveOrEmpty(d, key) ==
    IF d[key] # NoSources THEN d[key]
    ELSE IF d["default-src"] # NoSources THEN d["default-src"] ELSE <<>>

\* the copy of #directives that get_header extends with the added sources
HeaderDirectives ==
    LET with_style ==
            IF Len(style_src) > 0
            THEN [directives EXCEPT
                    !["style-src"] = EffectiveOrEmpty(directives, "style-src") \o style_src]
            ELSE directives
    IN  IF Len(script_src) > 0
        THEN [with_style EXCEPT
                !["script-src"] = EffectiveOrEmpty(with_style, "script-src") \o script_src]
        ELSE with_style

\* for (const key in directives): the configuration's own keys in their order,
\* then style-src and script-src where the assignment created them
HeaderKeyOrder ==
    LET own == SelectSeq(DirectiveKeys, LAMBDA k : directives[k] # NoSources)
        new_style == IF Len(style_src) > 0 /\ directives["style-src"] = NoSources
                     THEN <<"style-src">> ELSE <<>>
        new_script == IF Len(script_src) > 0 /\ directives["script-src"] = NoSources
                      THEN <<"script-src">> ELSE <<>>
    IN  own \o new_style \o new_script

\* one directive of the header: its key and its values, quoted where needed
Directive(key, value) ==
    [key |-> key,
     values |-> [i \in DOMAIN value |->
                   [quoted |-> (value[i].kind = "keyword" /\ value[i].text \in quoted)
                                  \/ crypto_pattern(value[i]),
                    source |-> value[i]]]]

\* get_header(is_meta)
RECURSIVE EmitDirectives(_, _, _)
EmitDirectives(keys, d, is_meta) ==
    IF keys = <<>> THEN <<>>
    ELSE LET key == Head(keys)
             skipped == is_meta /\ key \in {"frame-ancestors", "report-uri", "sandbox"}
         IN  (IF skipped THEN <<>> ELSE <<Directive(key, d[key])>>)
                 \o EmitDirectives(Tail(keys), d, is_meta)

get_header(is_meta) == EmitDirectives(HeaderKeyOrder, HeaderDirectives, is_meta)

\* ---- inputs
MaxInline == 2

Nonces == {"nonce1", "nonce2"}

InlineContents == {"init_app", "other"}

ScriptSrcConfigs ==
    {NoSources, <<>>, <<Self>>, <<UnsafeInline>>, <<Self, UnsafeInline>>}

DefaultSrcConfigs == {NoSources, <<CdnHost>>, <<UnsafeInline>>}

StyleSrcConfigs == {NoSources, <<Self>>}

DirectiveConfigs ==
    { [k \in {DirectiveKeys[i] : i \in DOMAIN DirectiveKeys} |->
          CASE k = "default-src" -> dflt
            [] k = "script-src" -> script
            [] k = "style-src" -> style
            [] k = "frame-ancestors" -> frame
            [] k = "report-uri" -> NoSources] :
        dflt \in DefaultSrcConfigs, script \in ScriptSrcConfigs,
        style \in StyleSrcConfigs, frame \in {NoSources, <<None>>} }

CspIdle ==
    /\ use_hashes = FALSE
    /\ directives = <<>>
    /\ script_needs_csp = FALSE
    /\ style_needs_csp = FALSE
    /\ script_src = <<>>
    /\ style_src = <<>>
    /\ nonce = ""
    /\ inline_scripts = <<>>
    /\ inline_styles = <<>>
    /\ csp_header = <<>>
    /\ csp_is_meta = FALSE
    /\ csp_pc = "idle"

\* new CspProvider(use_hashes, directives, nonce), nonce = generate_nonce()
CspInit ==
    /\ use_hashes \in BOOLEAN
    /\ directives \in DirectiveConfigs
    /\ script_needs_csp = needs_csp(Effective(directives, "script-src"))
    /\ style_needs_csp = needs_csp(Effective(directives, "style-src"))
    /\ script_src = <<>>
    /\ style_src = <<>>
    /\ nonce \in Nonces
    /\ inline_scripts = <<>>
    /\ inline_styles = <<>>
    /\ csp_header = <<>>
    /\ csp_is_meta = FALSE
    /\ csp_pc = "open"

AddScript ==
    /\ csp_pc = "open"
    /\ Len(inline_scripts) + Len(inline_styles) < MaxInline
    /\ \E content \in InlineContents :
          /\ script_src' = add_script_src(script_src, content)
          /\ inline_scripts' = Append(inline_scripts, content)
    /\ UNCHANGED <<use_hashes, directives, script_needs_csp, style_needs_csp,
                   style_src, nonce, inline_styles, csp_header, csp_is_meta, csp_pc>>
    /\ UNCHANGED notCspVars

AddStyle ==
    /\ csp_pc = "open"
    /\ Len(inline_scripts) + Len(inline_styles) < MaxInline
    /\ \E content \in InlineContents :
          /\ style_src' = add_style_src(style_src, content)
          /\ inline_styles' = Append(inline_styles, content)
    /\ UNCHANGED <<use_hashes, directives, script_needs_csp, style_needs_csp,
                   script_src, nonce, inline_scripts, csp_header, csp_is_meta, csp_pc>>
    /\ UNCHANGED notCspVars

\* get_header leaves the provider as it is: a run records one call of it and
\* ends there
GetHeader ==
    /\ csp_pc = "open"
    /\ \E is_meta \in BOOLEAN :
          /\ csp_is_meta' = is_meta
          /\ csp_header' = get_header(is_meta)
    /\ csp_pc' = "header"
    /\ UNCHANGED <<use_hashes, directives, script_needs_csp, style_needs_csp,
                   script_src, style_src, nonce, inline_scripts, inline_styles>>
    /\ UNCHANGED notCspVars

CspNext == AddScript \/ AddStyle \/ GetHeader

\* ---- what the claims about the CSP header speak of
\* the values of directive `key` in the recorded header, <<>> when it has none
HeaderValues(key) ==
    LET at == {i \in DOMAIN csp_header : csp_header[i].key = key}
    IN  IF at = {} THEN <<>> ELSE csp_header[CHOOSE i \in at : TRUE].values

\* how many values of directive `key` are tokens of `kind`
TokenCount(key, kind) ==
    Cardinality({i \in DOMAIN HeaderValues(key) :
                    HeaderValues(key)[i].source.kind = kind})

\* the configured script sources (script-src, else default-src) hold a
\* source other than unsafe-inline
ScriptNeedsStrengthening ==
    LET configured == IF directives["script-src"] # NoSources
                      THEN directives["script-src"] ELSE directives["default-src"]
    IN  /\ configured # NoSources
        /\ {configured[i] : i \in DOMAIN configured} \ {UnsafeInline} # {}

(***************************************************************************)
(* C10: under nonce mode, with a script-src (or fallback default-src) that *)
(* needs strengthening beyond unsafe-inline, after one or more add_script  *)
(* calls the script-src directive emitted by get_header holds exactly one  *)
(* nonce-* token (the response's nonce, quoted), however many inline       *)
(* scripts were added.                                                     *)
(***************************************************************************)
C10_OneNonceToken ==
    (/\ csp_pc = "header"
     /\ ~use_hashes
     /\ ScriptNeedsStrengthening
     /\ Len(inline_scripts) >= 1)
        => /\ TokenCount("script-src", "nonce") = 1
           /\ \A i \in DOMAIN HeaderValues("script-src") :
                 HeaderValues("script-src")[i].source.kind = "nonce"
                    => /\ HeaderValues("script-src")[i].source.text = nonce
                       /\ HeaderValues("script-src")[i].quoted

C10_Witness ==
    /\ csp_pc = "header"
    /\ ~use_hashes
    /\ ScriptNeedsStrengthening
    /\ directives["script-src"] = NoSources
    /\ Len(inline_scripts) = 2
    /\ TokenCount("script-src", "nonce") = 1

\* the texts of the sha256 tokens of directive `key` in the recorded header
HashTokens(key) ==
    {HeaderValues(key)[i].source.text :
        i \in {k \in DOMAIN HeaderValues(key) :
                  HeaderValues(key)[k].source.kind = "sha256"}}

\* the digests of the inline scripts added so far
ScriptDigests == {sha256(inline_scripts[i]) : i \in DOMAIN inline_scripts}

HashModeTwoScripts ==
    /\ csp_pc = "header"
    /\ use_hashes
    /\ ScriptNeedsStrengthening
    /\ Len(inline_scripts) = 2

(***************************************************************************)
(* C11 as stated: under hash mode, with a script-src (or fallback          *)
(* default-src) that needs strengthening, adding two inline scripts yields *)
(* two distinct sha256-* tokens in the script-src directive emitted by     *)
(* get_header.                                                             *)
(***************************************************************************)
C11_TwoDistinctHashTokens ==
    HashModeTwoScripts => Cardinality(HashTokens("script-src")) = 2

(***************************************************************************)
(* C11: under hash mode, with a script-src (or fallback default-src) that  *)
(* needs strengthening, adding two inline scripts yields two sha256-*      *)
(* tokens in the script-src directive emitted by get_header, one per       *)
(* script and each quoted: the digests of the two contents, distinct       *)
(* exactly when the contents differ.                                       *)
(***************************************************************************)
C11_OneHashTokenPerScript ==
    HashModeTwoScripts
        => /\ TokenCount("script-src", "sha256") = 2
           /\ HashTokens("script-src") = ScriptDigests
           /\ (Cardinality(HashTokens("script-src")) = 2
                  <=> inline_scripts[1] # inline_scripts[2])
           /\ \A i \in DOMAIN HeaderValues("script-src") :
                 HeaderValues("script-src")[i].source.kind = "sha256"
                    => HeaderValues("script-src")[i].quoted

C11_Witness ==
    /\ HashModeTwoScripts
    /\ directives["script-src"] = NoSources
    /\ inline_scripts[1] = inline_scripts[2]
    /\ TokenCount("script-src", "sha256") = 2
    /\ Cardinality(HashTokens("script-src")) = 1

(***************************************************************************)
(* Route selection (respond, exec)                                         *)
(***************************************************************************)
\* pattern.exec(decoded) returned null
NoMatch == <<Undefined, <<"null">>>>

\* param.matcher of a parameter without a matcher (falsy)
NoMatcher == ""

\* a parameter descriptor
Param(name, matcher, optional, rest, chained) ==
    [name |-> name, matcher |-> matcher, optional |-> optional, rest |-> rest,
     chained |-> chained]

Digits == {"1", "2"}

\* matchers[matcher](value): the application's parameter matchers
matchers(matcher, value) ==
    CASE matcher = "integer" ->
            value # <<>> /\ \A i \in DOMAIN value : value[i] \in Digits
      [] matcher = "word" ->
            value # <<>> /\ \A i \in DOMAIN value : value[i] \notin Digits
      [] OTHER -> FALSE

\* values[i] for a 0-based index i: undefined outside the array
At(values, i) == IF i >= 0 /\ i < Len(values) THEN values[i + 1] ELSE Undefined

\* list.join('/')
RECURSIVE Join(_)
Join(list) ==
    IF list = <<>> THEN <<>>
    ELSE IF Len(list) = 1 THEN list[1]
    ELSE list[1] \o <<"/">> \o Join(Tail(list))

\* values.slice(from, to).filter((s) => s).join('/') for 0-based from, to
JoinTruthy(values, from, to) ==
    Join(SelectSeq(SubSeq(values, from + 1, Min(to, Len(values))),
                   LAMBDA v : ~Falsy(v)))

\* the for loop of exec from index i on: [ok, result, buffered], buffered
\* being the counter when the loop ended
RECURSIVE ExecLoop(_, _, _, _, _)
ExecLoop(values, ps, i, buffered, result) ==
    IF i >= Len(ps)
    THEN IF buffered # 0
         THEN [ok |-> FALSE, result |-> EmptyObject, buffered |-> buffered]
         ELSE [ok |-> TRUE, result |-> result, buffered |-> buffered]
    ELSE LET param == ps[i + 1]
             value == At(values, i - buffered)
         IN  IF param.chained /\ param.rest /\ buffered # 0
             THEN ExecLoop(values, ps, i + 1, 0,
                           Assign(result, param.name,
                                  JoinTruthy(values, i - buffered, i + 1)))
             ELSE IF value = Undefined
             THEN ExecLoop(values, ps, i + 1, buffered,
                           IF param.rest THEN Assign(result, param.name, <<>>)
                           ELSE result)
             ELSE IF param.matcher = NoMatcher \/ matchers(param.matcher, value)
             THEN LET next_value == At(values, i + 1)
                      \* next_param && !next_param.rest && next_param.optional
                      \*            && next_value
                      reset == /\ i + 1 < Len(ps)
                               /\ ~ps[i + 2].rest
                               /\ ps[i + 2].optional
                               /\ ~Falsy(next_value)
                  IN  ExecLoop(values, ps, i + 1, IF reset THEN 0 ELSE buffered,
                               Assign(result, param.name, value))
             ELSE IF param.optional /\ param.chained
             THEN ExecLoop(values, ps, i + 1, buffered + 1, result)
             ELSE [ok |-> FALSE, result |-> EmptyObject, buffered |-> buffered]

\* exec(match, params, matchers): values = match.slice(1)
exec(values, ps) == ExecLoop(values, ps, 0, 0, EmptyObject)

\* decodeURIComponent, on the escapes captured values are made of here
RECURSIVE decodeURIComponent(_)
decodeURIComponent(s) ==
    IF s = <<>> THEN <<>>
    ELSE IF Len(s) >= 3 /\ SubSeq(s, 1, 3) = <<"%", "2", "0">>
         THEN <<" ">> \o decodeURIComponent(SubSeq(s, 4, Len(s)))
         ELSE <<Head(s)>> \o decodeURIComponent(Tail(s))

decode_params(matched) == [k \in DOMAIN matched |-> decodeURIComponent(matched[k])]

\* a plausible slip: no `break`, the last candidate that matches is kept
RECURSIVE find_route_last(_)
find_route_last(i) ==
    IF i > Len(routes) THEN [route |-> 0, params |-> EmptyObject]
    ELSE LET later == find_route_last(i + 1)
             matched == IF pattern_matches[i] = NoMatch
                        THEN [ok |-> FALSE, result |-> EmptyObject]
                        ELSE exec(pattern_matches[i], routes[i].params)
         IN  IF later.route # 0 \/ ~matched.ok THEN later
             ELSE [route |-> i, params |-> decode_params(matched.result)]

\* for (const candidate of manifest._.routes) { ... break; }, from candidate i on
RECURSIVE find_route(_)
find_route(i) ==
    IF i > Len(routes) THEN [route |-> 0, params |-> EmptyObject]
    ELSE IF pattern_matches[i] = NoMatch THEN find_route(i + 1)
    ELSE LET matched == exec(pattern_matches[i], routes[i].params)
         IN  IF matched.ok
             THEN [route |-> i, params |-> decode_params(matched.result)]
             ELSE find_route(i + 1)

\* ---- inputs
MaxRoutes == 2

\* parameter lists of: a static route, [id], [id=integer], [[lang=integer]]/[slug],
\* [[lang=integer]]/[...rest], [...rest]
RouteShapes ==
    { <<>>,
      <<Param("id", NoMatcher, FALSE, FALSE, FALSE)>>,
      <<Param("id", "integer", FALSE, FALSE, FALSE)>>,
      <<Param("lang", "integer", TRUE, FALSE, TRUE),
        Param("slug", NoMatcher, FALSE, FALSE, FALSE)>>,
      <<Param("lang", "integer", TRUE, FALSE, TRUE),
        Param("rest", NoMatcher, FALSE, TRUE, TRUE)>>,
      <<Param("rest", NoMatcher, FALSE, TRUE, FALSE)>> }

CapturedValues == {Undefined, <<"a">>, <<"1">>, <<"%", "2", "0">>}

\* what a route's pattern can capture: one group per parameter
Captures(ps) == [1..Len(ps) -> CapturedValues]

RouteIdle ==
    /\ routes = <<>>
    /\ pattern_matches = <<>>
    /\ route = 0
    /\ params = EmptyObject
    /\ route_pc = "idle"

RouteInit ==
    /\ \E n \in 1..MaxRoutes :
          /\ routes \in [1..n -> [params : RouteShapes]]
          /\ pattern_matches \in [1..n -> {NoMatch} \cup UNION {Captures(ps) : ps \in RouteShapes}]
          /\ \A i \in 1..n :
                pattern_matches[i] = NoMatch
                    \/ pattern_matches[i] \in Captures(routes[i].params)
    /\ route = 0
    /\ params = EmptyObject
    /\ route_pc = "start"

\* respond: the loop over manifest._.routes
MatchRoute ==
    /\ route_pc = "start"
    /\ route' = find_route(1).route
    /\ params' = find_route(1).params
    /\ route_pc' = "matched"
    /\ UNCHANGED <<routes, pattern_matches>>
    /\ UNCHANGED notRouteVars

RouteNext == MatchRoute

\* ---- what the claim about route selection speaks of
\* the candidates whose pattern matches and whose parameters all pass
Qualifying ==
    {i \in DOMAIN routes :
        /\ pattern_matches[i] # NoMatch
        /\ exec(pattern_matches[i], routes[i].params).ok}

(***************************************************************************)
(* C1: the selected route is the first route in declaration order whose    *)
(* pattern matches and whose parameter extraction (exec, with the          *)
(* parameter matchers) succeeds; no later route is ever selected in its    *)
(* place, and when no route qualifies none is selected.                    *)
(***************************************************************************)
C1_FirstQualifyingRoute ==
    route_pc = "matched" =>
        IF Qualifying = {} THEN route = 0
        ELSE /\ route \in Qualifying
             /\ \A i \in Qualifying : route <= i

C1_Witness ==
    /\ route_pc = "matched"
    /\ Len(routes) = 2
    /\ Qualifying = {1, 2}
    /\ route = 1
    /\ routes[1].params # <<>>

(***************************************************************************)
(* Content hash (hash) and the entity tag made of it                       *)
(***************************************************************************)
\* the printable ASCII characters of codes 32 (space) to 95 (_)
AsciiFrom32 ==
    <<
      " ", "!", "\"", "#", "$", "%", "&", "'", "(", ")", "*", "+",
      ",", "-", ".", "/", "0", "1", "2", "3", "4", "5", "6", "7",
      "8", "9", ":", ";", "<", "=", ">", "?", "@", "A", "B", "C",
      "D", "E", "F", "G", "H", "I", "J", "K", "L", "M", "N", "O",
      "P", "Q", "R", "S", "T", "U", "V", "W", "X", "Y", "Z", "[",
      "\\", "]", "^", "_"
    >>

\* the printable ASCII characters of codes 97 (a) to 126 (~)
AsciiFrom97 ==
    <<
      "a", "b", "c", "d", "e", "f", "g", "h", "i", "j", "k", "l",
      "m", "n", "o", "p", "q", "r", "s", "t", "u", "v", "w", "x",
      "y", "z", "{", "|", "}", "~"
    >>

\* String.prototype.charCodeAt for one character
CharCodes ==
    [c \in {AsciiFrom32[i] : i \in DOMAIN AsciiFrom32}
            \cup {AsciiFrom97[i] : i \in DOMAIN AsciiFrom97} |->
        IF \E i \in DOMAIN AsciiFrom32 : AsciiFrom32[i] = c
        THEN 31 + CHOOSE i \in DOMAIN AsciiFrom32 : AsciiFrom32[i] = c
        ELSE 96 + CHOOSE i \in DOMAIN AsciiFrom97 : AsciiFrom97[i] = c]

\* a ^ b on bit patterns, for non-negative a and b
RECURSIVE Xor(_, _)
Xor(a, b) ==
    IF b = 0 THEN a
    ELSE IF a = 0 THEN b
    ELSE 2 * Xor(a \div 2, b \div 2) + ((a + b) % 2)

\* a ^ b for 7-bit a and b, tabulated
XorLow == [a \in 0..127 |-> [b \in 0..127 |-> Xor(a, b)]]

\* the digits of Number.prototype.toString(36)
Base36Digits ==
    <<"0", "1", "2", "3", "4", "5", "6", "7", "8", "9", "a", "b",
      "c", "d", "e", "f", "g", "h", "i", "j", "k", "l", "m", "n",
      "o", "p", "q", "r", "s", "t", "u", "v", "w", "x", "y", "z">>

\* a 32-bit pattern is kept as its two 16-bit halves [hi, lo]
Word(hi, lo) == [hi |-> hi, lo |-> lo]

\* (hash * 33) ^ code for a character code (below 128), truncated to 32 bits
\* as the ^ operator does
HashStep(h, code) ==
    LET lo33 == h.lo * 33
    IN  Word((h.hi * 33 + lo33 \div 65536) % 65536,
             ((lo33 % 65536) \div 128) * 128 + XorLow[lo33 % 128][code])

\* (hash >>> 0).toString(36)
RECURSIVE toString36(_)
toString36(h) ==
    LET rest == (h.hi % 36) * 65536 + h.lo
        quotient == Word(h.hi \div 36, rest \div 36)
        digit == <<Base36Digits[(rest % 36) + 1]>>
    IN  IF quotient.hi = 0 /\ quotient.lo = 0 THEN digit
        ELSE toString36(quotient) \o digit

\* while (i) hash = (hash * 33) ^ value.charCodeAt(--i), over the characters
\* value[from..to] from last to first (the range is halved to keep the
\* evaluation shallow)
RECURSIVE HashLoop(_, _, _, _)
HashLoop(value, from, to, h) ==
    IF from > to \/ h.lo < 0 THEN h
    ELSE IF from = to THEN HashStep(h, CharCodes[value[from]])
    ELSE LET mid == (from + to) \div 2
         IN  HashLoop(value, from, mid, HashLoop(value, mid + 1, to, h))

\* hash(value): djb2 from 5381, in base 36
hash(value) == toString36(HashLoop(value, 1, Len(value), Word(0, 5381)))

(***************************************************************************)
(* One page request: values, errors, serialization                         *)
(***************************************************************************)
\* ---- values returned by load functions and actions
\* a promise nested in returned data (top-level promises are awaited by
\* unwrap_promises, nested ones are left to the serializer)
Promise == <<"Promise">>

\* JavaScript null / undefined where data is expected
Null == [type |-> "null", entries |-> <<>>]

\* a plain object: its own properties in order, each [key, value]; a value is
\* a string or a Promise
Object(entries) == [type |-> "object", entries |-> entries]

Property(key, value) == [key |-> key, value |-> value]

\* { title: 'Hi' }
TitleHi == Object(<<Property(<<"t", "i", "t", "l", "e">>, <<"H", "i">>)>>)

\* { user: 'u' }
UserData == Object(<<Property(<<"u", "s", "e", "r">>, <<"u">>)>>)

\* { stream: { value: <promise> } }, flattened to the one pending value
Streamed == Object(<<Property(<<"s", "t", "r", "e", "a", "m">>, Promise)>>)

\* { reason: 'invalid' }
ReasonInvalid == Object(<<Property(<<"r", "e", "a", "s", "o", "n">>, <<"i", "n", "v", "a", "l", "i", "d">>)>>)

\* ---- thrown values
Err(name, err_status, message) ==
    [name |-> name, status |-> err_status, message |-> message]

NoError == Err("none", 0, <<>>)

\* new Error(message)
PlainError(message) == Err("Error", 0, message)

\* error(status, message): an HttpError
error(err_status, message) == Err("HttpError", err_status, message)

\* redirect(status, location): a Redirect, its location kept as the message
Redirect(err_status, location) == Err("Redirect", err_status, location)

\* what options.hooks.handleError returned: nothing (undefined, as the default
\* hook that logs the error does), or an App.Error
HookReturnsNothing == [returned |-> FALSE, body |-> [message |-> <<>>]]

HookReturns(body) == [returned |-> TRUE, body |-> body]

\* the error's own message as the fallback: a variant of jsonify_error
jsonify_error_own_message(route_matched, hook, err) ==
    IF err.name = "HttpError" THEN [message |-> err.message]
    ELSE IF hook.returned THEN hook.body
    ELSE [message |-> err.message]

\* handle_error_and_jsonify(event, options, error) where route_matched is
\* event.route.id != null and hook what handleError returns for the error
jsonify_error(route_matched, hook, err) ==
    IF err.name = "HttpError" THEN [message |-> err.message]
    ELSE IF hook.returned THEN hook.body
    ELSE [message |-> IF route_matched THEN <<"I", "n", "t", "e", "r", "n", "a", "l", " ", "E", "r", "r", "o", "r">> ELSE <<"N", "o", "t", " ", "F", "o", "u", "n", "d">>]

\* handle_error_and_jsonify on a matched route with the default handleError:
\* the body of an HttpError, else { message: 'Internal Error' }
handle_error_and_jsonify(err) == jsonify_error(TRUE, HookReturnsNothing, err)

\* err instanceof HttpError ? err.status : 500
ErrorStatus(err) == IF err.name = "HttpError" THEN err.status ELSE 500

\* ---- ServerDataNode | null
NoServerData == [type |-> "null", data |-> Null]

ServerDataNode(data) == [type |-> "data", data |-> data]

\* ---- promises
Pending(value) == [state |-> "pending", value |-> value, error |-> NoError]

Fulfilled(value) == [state |-> "fulfilled", value |-> value, error |-> NoError]

Rejected(value, err) == [state |-> "rejected", value |-> value, error |-> err]

\* ---- numbers as text
DecimalDigits == <<"0", "1", "2", "3", "4", "5", "6", "7", "8", "9">>

\* Number.prototype.toString() for a non-negative integer
RECURSIVE NumberToString(_)
NumberToString(n) ==
    IF n < 10 THEN <<DecimalDigits[n + 1]>>
    ELSE NumberToString(n \div 10) \o <<DecimalDigits[(n % 10) + 1]>>

\* list.join(separator) for a list of strings
RECURSIVE JoinWith(_, _)
JoinWith(list, separator) ==
    IF list = <<>> THEN <<>>
    ELSE IF Len(list) = 1 THEN list[1]
    ELSE list[1] \o separator \o JoinWith(Tail(list), separator)

\* ---- the serializer of the hydration payload (uneval with get_data's replacer)
\* the global the payload's placeholders refer to
global == <<"_", "_", "s", "v", "e", "l", "t", "e", "k", "i", "t", "_", "x">>

\* uneval of the properties from index k on, the next placeholder id being id:
\* [strings, id]; the replacer turns a thenable into `${global}.defer(${id})`
RECURSIVE UnevalProperties(_, _, _)
UnevalProperties(entries, k, id) ==
    IF k > Len(entries) THEN [strings |-> <<>>, id |-> id]
    ELSE LET property == entries[k]
             thenable == property.value = Promise
             str == IF thenable
                    THEN global \o <<".", "d", "e", "f", "e", "r", "(">> \o NumberToString(id) \o <<")">>
                    ELSE <<"\"">> \o property.value \o <<"\"">>
             rest == UnevalProperties(entries, k + 1, IF thenable THEN id + 1 ELSE id)
         IN  [strings |-> <<property.key \o <<":">> \o str>> \o rest.strings,
              id |-> rest.id]

\* uneval(value, replacer): [str, id]
uneval(value, id) ==
    IF value.type = "null" THEN [str |-> <<"n", "u", "l", "l">>, id |-> id]
    ELSE LET properties == UnevalProperties(value.entries, 1, id)
         IN  [str |-> <<"{">> \o JoinWith(properties.strings, <<",">>) \o <<"}">>,
              id |-> properties.id]

\* nodes.map(...) of get_data from node k on, promise_id being id: [strings, id]
RECURSIVE DataStrings(_, _, _)
DataStrings(nodes, k, id) ==
    IF k > Len(nodes) THEN [strings |-> <<>>, id |-> id]
    ELSE IF nodes[k].type = "null"
    THEN LET rest == DataStrings(nodes, k + 1, id)
         IN  [strings |-> <<<<"n", "u", "l", "l">>>> \o rest.strings, id |-> rest.id]
    ELSE LET data == uneval(nodes[k].data, id)
             rest == DataStrings(nodes, k + 1, data.id)
         IN  [strings |-> <<<<"{", "\"", "t", "y", "p", "e", "\"", ":", "\"", "d", "a", "t", "a", "\"", ",", "\"", "d", "a", "t", "a", "\"", ":">> \o data.str
                                \o <<",", "\"", "u", "s", "e", "s", "\"", ":", "{", "}", "}">>>> \o rest.strings,
              id |-> rest.id]

\* a plausible slip: the payload lists the leaf first
RECURSIVE Reverse(_)
Reverse(list) == IF list = <<>> THEN <<>> ELSE Reverse(Tail(list)) \o <<Head(list)>>

get_data_leaf_first(nodes) ==
    LET result == DataStrings(Reverse(nodes), 1, 1)
    IN  [strings |-> result.strings,
         data |-> <<"[">> \o JoinWith(result.strings, <<",">>) \o <<"]">>,
         count |-> result.id - 1]

\* get_data(event, options, nodes, global): the entries (`strings`), the payload
\* text (`data`) and the number of values still pending (`count`; chunks is
\* non-null exactly when it is positive)
get_data(nodes) ==
    LET result == DataStrings(nodes, 1, 1)
    IN  [strings |-> result.strings,
         data |-> <<"[">> \o JoinWith(result.strings, <<",">>) \o <<"]">>,
         count |-> result.id - 1]


\* ---- responses
\* a Headers object: header name -> value
NoHeaders == [name \in {} |-> <<>>]

SetHeader(h, name, value) ==
    [n \in DOMAIN h \cup {name} |-> IF n = name THEN value ELSE h[n]]

\* the body of a Response: "empty", "html" (a document, followed by `chunks`
\* streamed script chunks), "text" or "json" (the value that was stringified)
NoEnvelope == [type |-> "none", status |-> 0, data |-> <<>>, location |-> <<>>,
               error |-> [message |-> <<>>]]

EmptyBody == [type |-> "empty", text |-> <<>>, chunks |-> 0, value |-> NoEnvelope]

HtmlBody(html, chunks) ==
    [type |-> "html", text |-> html, chunks |-> chunks, value |-> NoEnvelope]

JsonBody(value) == [type |-> "json", text |-> <<>>, chunks |-> 0, value |-> value]

\* new Response(body, { status, headers })
Response(response_status, response_headers, body) ==
    [status |-> response_status, headers |-> response_headers, body |-> body]

\* the variable's value while no response exists
NoResponse == Response(0, NoHeaders, EmptyBody)

\* text(body, init): a content-length header is added
text(html, response_status, response_headers) ==
    Response(response_status,
             SetHeader(response_headers, "content-length", NumberToString(Len(html))),
             HtmlBody(html, 0))

\* devalue's stringify for a plain object of strings, as
\* stringify_action_response uses it: [{"key":1},"value"]
RECURSIVE StringifyProperties(_, _)
StringifyProperties(entries, k) ==
    IF k > Len(entries) THEN [keys |-> <<>>, values |-> <<>>]
    ELSE LET rest == StringifyProperties(entries, k + 1)
         IN  [keys |-> <<<<"\"">> \o entries[k].key \o <<"\"", ":">> \o NumberToString(k)>>
                           \o rest.keys,
              values |-> <<<<"\"">> \o entries[k].value \o <<"\"">>>> \o rest.values]

stringify_action_response(value) ==
    IF value.type = "null" THEN <<"-", "1">>
    ELSE LET properties == StringifyProperties(value.entries, 1)
         IN  <<"[", "{">> \o JoinWith(properties.keys, <<",">>) \o <<"}">>
                 \o JoinWith(<<<<>>>> \o properties.values, <<",">>) \o <<"]">>

\* action_json(data, init) = json(data, init): status 200 unless init gives
\* one; the body is kept as the value json stringifies (its content-length
\* header is left out with the text)
action_json(envelope, response_status, response_headers) ==
    Response(response_status,
             SetHeader(response_headers, "content-type", <<"a", "p", "p", "l", "i", "c", "a", "t", "i", "o", "n", "/", "j", "s", "o", "n">>),
             JsonBody(envelope))

\* redirect_response(status, location)
redirect_response(response_status, location) ==
    Response(response_status, SetHeader(NoHeaders, "location", location), EmptyBody)

\* static_error_page(options, status, message): the error template filled in
static_error_page(response_status, message) ==
    text(NumberToString(response_status) \o <<" ">> \o message, response_status,
         SetHeader(NoHeaders, "content-type", <<"t", "e", "x", "t", "/", "h", "t", "m", "l", ";", " ", "c", "h", "a", "r", "s", "e", "t", "=", "u", "t", "f", "-", "8">>))

\* ---- render_response
\* the value of the `rendered` variable while render_response has not run
NotRendered ==
    [called |-> FALSE, branch |-> <<>>, status |-> 0,
     error |-> [message |-> <<>>], has_error |-> FALSE, strings |-> <<>>,
     count |-> 0]

\* the Link header made of link_header_preloads (the client's entry import)
LinkHeader == <<"<", "s", "t", "a", "r", "t", ".", "j", "s", ">", ";", " ", "r", "e", "l", "=", "\"", "m", "o", "d", "u", "l", "e", "p", "r", "e", "l", "o", "a", "d", "\"", ";", " ", "n", "o", "p", "u", "s", "h">>

\* csp.csp_provider.get_header() for the configured policy script-src 'self'
page_csp_header == <<"s", "c", "r", "i", "p", "t", "-", "s", "r", "c", " ", "'", "s", "e", "l", "f", "'">>

\* branch.map(({ node }) => node.index).join(', ')
NodeIds(render_branch) ==
    JoinWith([k \in DOMAIN render_branch |-> NumberToString(render_branch[k].node)],
             <<",", " ">>)

\* action_result.data ?? null for a success or failure, else null
FormValue(result) ==
    IF result.type \in {"success", "failure"} THEN result.data ELSE Null

\* the document: the page template around the payload and the hydration
\* arguments (node_ids, data, form, error and, unless 200, status)
Transformed(render_branch, render_status, has_error, render_error, result, payload) ==
    <<"d", "a", "t", "a", "=">> \o payload.data
        \o <<";", "n", "o", "d", "e", "_", "i", "d", "s", ":", "[">> \o NodeIds(render_branch)
        \o <<"]", ",", "f", "o", "r", "m", ":">> \o uneval(FormValue(result), 1).str
        \o <<",", "e", "r", "r", "o", "r", ":">>
        \o (IF has_error THEN <<"{", "m", "e", "s", "s", "a", "g", "e", ":", "\"">> \o render_error.message \o <<"\"", "}">>
            ELSE <<"n", "u", "l", "l">>)
        \o (IF render_status # 200 THEN <<",", "s", "t", "a", "t", "u", "s", ":">> \o NumberToString(render_status)
            ELSE <<>>)

\* a plausible slip: the entity tag set whether or not the body is streamed
render_response_etag_always(render_branch, render_status, has_error, render_error, result) ==
    LET payload == get_data([k \in DOMAIN render_branch |-> render_branch[k].server_data])
        transformed == Transformed(render_branch, render_status, has_error,
                                   render_error, result, payload)
        etag == <<"\"">> \o hash(transformed) \o <<"\"">>
        render_headers ==
            SetHeader(SetHeader(SetHeader(SetHeader(NoHeaders, "content-type", <<"t", "e", "x", "t", "/", "h", "t", "m", "l">>),
                                          "content-security-policy", page_csp_header),
                                "link", LinkHeader), "etag", etag)
    IN  IF payload.count = 0
        THEN text(transformed, render_status, render_headers)
        ELSE Response(200, SetHeader(SetHeader(NoHeaders, "content-type", <<"t", "e", "x", "t", "/", "h", "t", "m", "l">>),
                                     "etag", etag),
                      HtmlBody(transformed, payload.count))

\* render_response({ branch, status, error, action_result, ... }): the Response
render_response(render_branch, render_status, has_error, render_error, result) ==
    LET payload == get_data([k \in DOMAIN render_branch |-> render_branch[k].server_data])
        chunks == payload.count > 0
        transformed == Transformed(render_branch, render_status, has_error,
                                   render_error, result, payload)
        \* headers.set('content-security-policy', csp_header); headers.set('link', ...)
        with_link == SetHeader(SetHeader(SetHeader(NoHeaders, "content-type", <<"t", "e", "x", "t", "/", "h", "t", "m", "l">>),
                                         "content-security-policy", page_csp_header),
                               "link", LinkHeader)
        \* if (!chunks) headers.set('etag', `"${hash(transformed)}"`)
        render_headers ==
            IF ~chunks
            THEN SetHeader(with_link, "etag", <<"\"">> \o hash(transformed) \o <<"\"">>)
            ELSE with_link
    IN  IF ~chunks
        THEN text(transformed, render_status, render_headers)
        \* new Response(stream, { headers: { 'content-type': 'text/html' } })
        ELSE Response(200, SetHeader(NoHeaders, "content-type", <<"t", "e", "x", "t", "/", "h", "t", "m", "l">>),
                      HtmlBody(transformed, payload.count))

\* what the `rendered` variable records of a render_response call
Rendered(render_branch, render_status, has_error, render_error) ==
    LET payload == get_data([k \in DOMAIN render_branch |-> render_branch[k].server_data])
    IN  [called |-> TRUE, branch |-> render_branch, status |-> render_status,
         error |-> render_error, has_error |-> has_error,
         strings |-> payload.strings, count |-> payload.count]


(***************************************************************************)
(* One page request: respond, resolve, render_page                         *)
(***************************************************************************)
\* ---- negotiate and the two kinds of action request
\* one part of an Accept header; q in tenths, i its position
AcceptPart(type, subtype, q, i) == [type |-> type, subtype |-> subtype, q |-> q, i |-> i]

\* the comparator of parts.sort: TRUE when a sorts before b
PartBefore(a, b) ==
    IF a.q # b.q THEN a.q > b.q
    ELSE IF (a.subtype = "*") # (b.subtype = "*") THEN b.subtype = "*"
    ELSE IF (a.type = "*") # (b.type = "*") THEN b.type = "*"
    ELSE a.i < b.i

\* parts.sort(...): the parts in priority order
RECURSIVE SortParts(_)
SortParts(parts) ==
    IF parts = {} THEN <<>>
    ELSE LET first == CHOOSE a \in parts : \A b \in parts \ {a} : PartBefore(a, b)
         IN  <<first>> \o SortParts(parts \ {first})

\* parts.findIndex(...) for one mimetype, 0-based, -1 when no part matches
FindIndex(sorted, mimetype) ==
    LET at == {k \in DOMAIN sorted :
                  /\ sorted[k].type \in {mimetype.type, "*"}
                  /\ sorted[k].subtype \in {mimetype.subtype, "*"}}
    IN  IF at = {} THEN -1 ELSE (CHOOSE k \in at : \A l \in at : k <= l) - 1

\* the loop over types from index k on, with accepted and min_priority so far
RECURSIVE NegotiateLoop(_, _, _, _, _)
NegotiateLoop(sorted, types, k, accepted, min_priority) ==
    IF k > Len(types) THEN accepted
    ELSE LET priority == FindIndex(sorted, types[k])
         IN  IF priority # -1 /\ priority < min_priority
             THEN NegotiateLoop(sorted, types, k + 1, types[k], priority)
             ELSE NegotiateLoop(sorted, types, k + 1, accepted, min_priority)

Mime(type, subtype) == [type |-> type, subtype |-> subtype]

\* the `accepted` of negotiate while it is still undefined
NotAccepted == Mime("undefined", "undefined")

\* negotiate(accept, types); Infinity is any number above every index
negotiate(accept, types) ==
    NegotiateLoop(SortParts({accept[k] : k \in DOMAIN accept}), types, 1,
                  NotAccepted, Len(accept) + 1)

\* is_action_json_request(event)
is_action_json_request(req) ==
    /\ negotiate(req.accept, <<Mime("application", "json"), Mime("text", "html")>>)
           = Mime("application", "json")
    /\ req.method = "POST"

\* is_action_request(event)
is_action_request(req) == req.method = "POST"

\* ---- the page of the route
\* an index page.layouts or page.errors leaves out (undefined)
NoNode == -1

\* if (page.errors[i]): a node index other than 0
IsErrorNode(index) == index # NoNode /\ index # 0

\* the nodes of the page by depth: its layouts, then its leaf
Nodes == page.layouts \o <<page.leaf>>

\* the boundary search were it to stop above the root (while (--i)): a
\* variant of error_boundary that never finds the root's boundary
RECURSIVE error_boundary_above_root(_)
error_boundary_above_root(i) ==
    IF i <= 1 THEN 0
    ELSE IF IsErrorNode(page.errors[i]) THEN i
    ELSE error_boundary_above_root(i - 1)

\* while (i--) { if (page.errors[i]) ... }: the depth of the boundary found
\* from depth i down (depths count from 1 here), 0 when there is none
RECURSIVE error_boundary(_)
error_boundary(i) ==
    IF i = 0 THEN 0
    ELSE IF IsErrorNode(page.errors[i]) THEN i
    ELSE error_boundary(i - 1)

\* the slice were it to end at the last loaded entry of the whole branch
\* (let j = branch.length - 1) rather than at the boundary's depth
LastLoaded_of_branch(entries, j) == Len(entries)

\* let j = i; while (!branch[j]) j -= 1
RECURSIVE LastLoaded(_, _)
LastLoaded(entries, j) ==
    IF j = 0 \/ entries[j].node # NoNode THEN j ELSE LastLoaded(entries, j - 1)

\* a branch entry { node, server_data, data }; node is NoNode for a null slot
Loaded(node, server_data, data) ==
    [node |-> node, server_data |-> server_data, data |-> data]

NullSlot == Loaded(NoNode, NoServerData, Null)

\* compact(arr)
compact(entries) == SelectSeq(entries, LAMBDA entry : entry.node # NoNode)

\* ---- setHeaders and cookies
\* key.toLowerCase() for the header names written here
toLowerCase(key) ==
    CASE key = "Cache-Control" -> "cache-control"
      [] key = "Allow" -> "allow"
      [] key = "Set-Cookie" -> "set-cookie"
      [] OTHER -> key

\* event.setHeaders(new_headers) on the accumulator acc, from the k-th key on:
\* the accumulator afterwards and whether the call threw
RECURSIVE setHeaders(_, _, _)
setHeaders(acc, new_headers, k) ==
    IF k > Len(new_headers) THEN [headers |-> acc, threw |-> FALSE]
    ELSE LET lower == toLowerCase(new_headers[k].key)
         IN  IF lower = "set-cookie" \/ lower \in DOMAIN acc
             THEN [headers |-> acc, threw |-> TRUE]
             ELSE setHeaders(SetHeader(acc, lower, new_headers[k].value),
                             new_headers, k + 1)

\* serialize(name, value, options) with the options cookies.set fills in
serialize(cookie) == cookie.name \o <<"=">> \o cookie.value \o <<";", " ", "P", "a", "t", "h", "=", "/", ";", " ", "H", "t", "t", "p", "O", "n", "l", "y">>

\* headers.append(name, value): the value joins the one the header has
AppendHeader(h, name, value) ==
    SetHeader(h, name, IF name \in DOMAIN h THEN h[name] \o <<",", " ">> \o value
                       ELSE value)

\* for (const key in headers) response.headers.set(key, value), then
\* add_cookies_to_headers: what resolve's continuation in respond adds (one
\* set-cookie line; the loads of this page set one cookie name at most)
ApplyAccumulated(resp, acc, cookies) ==
    LET with_headers ==
            [n \in DOMAIN resp.headers \cup DOMAIN acc |->
                IF n \in DOMAIN acc THEN acc[n] ELSE resp.headers[n]]
        names == DOMAIN cookies
        set_cookie ==
            IF names = {} THEN with_headers
            ELSE AppendHeader(with_headers, "set-cookie",
                              serialize(cookies[CHOOSE n \in names : TRUE]))
    IN  [resp EXCEPT !.headers = set_cookie]

\* the continuation were it to run once per `return` of resolve as well as
\* in respond: a variant that applies the accumulator twice
WithAccumulated_twice(resp, acc, cookies) ==
    ApplyAccumulated(ApplyAccumulated(resp, acc, cookies), acc, cookies)

\* resolve(event, opts).then((response) => { ... return response }): the
\* accumulated headers and cookies put on the response, once
WithAccumulated(resp, acc, cookies) == ApplyAccumulated(resp, acc, cookies)


\* ---- what the application's code does when it is called
\* ActionResult
ActionResult(type, result_status, data, err, location) ==
    [type |-> type, status |-> result_status, data |-> data, error |-> err,
     location |-> location]

NoActionResult == ActionResult("none", 0, Null, NoError, <<>>)

\* one run of the page's action through call_action: the page has no actions,
\* or the selected action returns fail(422, { reason: 'invalid' }), returns
\* data, throws a redirect, or throws an unexpected error
ActionRuns ==
    { [actions |-> FALSE, outcome |-> "none", status |-> 0, data |-> Null,
       error |-> NoError],
      [actions |-> TRUE, outcome |-> "fail", status |-> 422, data |-> ReasonInvalid,
       error |-> NoError],
      [actions |-> TRUE, outcome |-> "return", status |-> 0, data |-> UserData,
       error |-> NoError],
      [actions |-> TRUE, outcome |-> "throw", status |-> 0, data |-> Null,
       error |-> Redirect(303, <<"/", "d", "o", "n", "e">>)],
      [actions |-> TRUE, outcome |-> "throw", status |-> 0, data |-> Null,
       error |-> PlainError(<<"b", "o", "o", "m">>)] }

\* the value of the `action_run` variable while no action has run
NotRun ==
    [actions |-> FALSE, outcome |-> "not run", status |-> 0, data |-> Null,
     error |-> NoError]

\* error(405, 'POST method not allowed. No actions exist for this page')
NoActionsError == error(405, <<"P", "O", "S", "T", " ", "m", "e", "t", "h", "o", "d", " ", "n", "o", "t", " ", "a", "l", "l", "o", "w", "e", "d">>)

\* check_named_default_separate(actions) throws: the page exposes a default
\* action next to named ones
MixedActionsError == PlainError(<<"W", "h", "e", "n", " ", "u", "s", "i", "n", "g", " ", "n", "a", "m", "e", "d", " ", "a", "c", "t", "i", "o", "n", "s", ",", " ", "t", "h", "e", " ", "d", "e", "f", "a", "u", "l", "t", " ", "a", "c", "t", "i", "o", "n", " ", "c", "a", "n", "n", "o", "t", " ", "b", "e", " ", "u", "s", "e", "d">>)

\* a returned value devalue cannot serialize, e.g. { fn: () => {} }
Unserializable == [type |-> "function", entries |-> <<>>]

\* try_deserialize(data, fn, route_id) throws
NotSerializableError == PlainError(<<"D", "a", "t", "a", " ", "r", "e", "t", "u", "r", "n", "e", "d", " ", "f", "r", "o", "m", " ", "a", "c", "t", "i", "o", "n", " ", "i", "s", " ", "n", "o", "t", " ", "s", "e", "r", "i", "a", "l", "i", "z", "a", "b", "l", "e">>)

\* fail(status, data) thrown, not returned: the ActionFailure as an error
ThrownFailure(failure_status) == Err("ActionFailure", failure_status, <<>>)

\* new Error(`Cannot "throw fail()". Use "return fail()"`)
IncorrectFailUse == PlainError(<<"C", "a", "n", "n", "o", "t", " ", "\"", "t", "h", "r", "o", "w", " ", "f", "a", "i", "l", "(", ")", "\"", ".", " ", "U", "s", "e", " ", "\"", "r", "e", "t", "u", "r", "n", " ", "f", "a", "i", "l", "(", ")", "\"">>)

\* the error passed on as it is: a variant of check_incorrect_fail_use that
\* lets a thrown failure marker through
check_incorrect_fail_use_kept(err) == err

\* check_incorrect_fail_use(error)
check_incorrect_fail_use(err) ==
    IF err.name = "ActionFailure" THEN IncorrectFailUse ELSE err

\* handle_action_request(event, server): the ActionResult of a run; type
\* "thrown" when check_named_default_separate threw and none is returned
handle_action_request(run) ==
    IF ~run.actions
    THEN ActionResult("error", 0, Null, NoActionsError, <<>>)
    ELSE IF run.outcome = "mixed"
    THEN ActionResult("thrown", 0, Null, MixedActionsError, <<>>)
    ELSE IF run.outcome = "fail"
    THEN ActionResult("failure", run.status, run.data, NoError, <<>>)
    ELSE IF run.outcome = "return"
    THEN ActionResult("success", 200, run.data, NoError, <<>>)
    ELSE IF run.error.name = "Redirect"
    THEN ActionResult("redirect", run.error.status, Null, NoError, run.error.message)
    ELSE ActionResult("error", 0, Null, check_incorrect_fail_use(run.error), <<>>)

\* the JSON envelope of an action outcome
Envelope(type, envelope_status, data, location, err) ==
    [type |-> type, status |-> envelope_status, data |-> data,
     location |-> location, error |-> err]

\* what a call returns or throws: [threw, error, response, reported], where
\* reported is the error handed to the handleError hook, if one was
Returned(resp, reported) ==
    [threw |-> FALSE, error |-> NoError, response |-> resp, reported |-> reported]

Thrown(err) ==
    [threw |-> TRUE, error |-> err, response |-> NoResponse, reported |-> NoError]

\* the error the handleError hook is called with by handle_error_and_jsonify
Reported(err) == IF err.name = "HttpError" THEN NoError ELSE err

\* the success status kept at 200 whatever was returned, as
\* handle_action_request has it: a variant of the JSON responder's choice
success_status_always_ok(data) == 200

\* data ? 200 : 204
success_status(data) == IF data.type # "null" THEN 200 ELSE 204

\* the catch of handle_action_json_request for the thrown value err
action_json_error(err) ==
    IF err.name = "Redirect"
    THEN Returned(action_json(Envelope("redirect", err.status, <<>>, err.message,
                                       [message |-> <<>>]),
                              200, NoHeaders),
                  NoError)
    ELSE Returned(action_json(Envelope("error", 0, <<>>, <<>>,
                                       handle_error_and_jsonify(
                                           check_incorrect_fail_use(err))),
                              ErrorStatus(err), NoHeaders),
                  Reported(check_incorrect_fail_use(err)))

\* handle_action_json_request(event, options, server) for a run: the Response
\* it returns, or the error it throws
handle_action_json_request(run) ==
    IF ~run.actions
    THEN Returned(action_json(Envelope("error", 0, <<>>, <<>>,
                                       handle_error_and_jsonify(NoActionsError)),
                              NoActionsError.status,
                              SetHeader(NoHeaders, "allow", <<"G", "E", "T">>)),
                  NoError)
    ELSE IF run.outcome = "mixed"
    THEN Thrown(MixedActionsError)
    ELSE IF run.outcome \in {"fail", "return"} /\ run.data = Unserializable
    THEN action_json_error(NotSerializableError)
    ELSE IF run.outcome = "fail"
    THEN Returned(action_json(Envelope("failure", run.status,
                                       stringify_action_response(run.data), <<>>,
                                       [message |-> <<>>]),
                              200, NoHeaders),
                  NoError)
    ELSE IF run.outcome = "return"
    THEN Returned(action_json(Envelope("success", success_status(run.data),
                                       stringify_action_response(run.data), <<>>,
                                       [message |-> <<>>]),
                              200, NoHeaders),
                  NoError)
    ELSE action_json_error(run.error)

\* the body json(body, { status }) of handle_fatal_error: the error's body on
\* its own, an object with no `type` property (type "" here)
ErrorBody(body) == Envelope("", 0, <<>>, <<>>, body)

\* the Response of handle_fatal_error for a status and a body: JSON for a
\* data request or when application/json is preferred, else the static page
fatal_error_response(accept, is_data_request, response_status, body) ==
    IF \/ is_data_request
       \/ negotiate(accept, <<Mime("application", "json"), Mime("text", "html")>>)
              = Mime("application", "json")
    THEN action_json(ErrorBody(body), response_status, NoHeaders)
    ELSE static_error_page(response_status, body.message)

\* handle_fatal_error(event, options, error), reached from resolve's catch
\* for a page request of a matched route
handle_fatal_error(req, err) ==
    fatal_error_response(req.accept, FALSE, ErrorStatus(err),
                         handle_error_and_jsonify(err))

\* a header or cookie a load writes before it returns
NoEffect == [call |-> "none", key |-> "", name |-> <<>>, value |-> <<>>]

SetsCacheControl ==
    [call |-> "setHeaders", key |-> "Cache-Control", name |-> <<>>,
     value |-> <<"m", "a", "x", "-", "a", "g", "e", "=", "6", "0">>]

SetsCookie == [call |-> "cookies.set", key |-> "sid", name |-> <<"s", "i", "d">>, value |-> <<"1">>]

\* one run of a node's server load: the node has none, or it returns data
\* (after an effect, or with a value still pending inside), or it throws
ServerLoadRuns ==
    { [server |-> FALSE, effect |-> NoEffect, data |-> Null, error |-> NoError],
      [server |-> TRUE, effect |-> NoEffect, data |-> TitleHi, error |-> NoError],
      [server |-> TRUE, effect |-> SetsCacheControl, data |-> TitleHi, error |-> NoError],
      [server |-> TRUE, effect |-> SetsCookie, data |-> UserData, error |-> NoError],
      [server |-> TRUE, effect |-> NoEffect, data |-> Streamed, error |-> NoError],
      [server |-> TRUE, effect |-> NoEffect, data |-> Null,
       error |-> PlainError(<<"b", "o", "o", "m">>)],
      [server |-> TRUE, effect |-> NoEffect, data |-> Null,
       error |-> Redirect(307, <<"/", "l", "o", "g", "i", "n">>)] }

\* one run of a node's universal load: the node has none (the server data
\* passes through), or it returns data of its own, or it throws
UniversalLoadRuns ==
    { [universal |-> FALSE, data |-> Null, error |-> NoError],
      [universal |-> TRUE, data |-> TitleHi, error |-> NoError],
      [universal |-> TRUE, data |-> Null, error |-> PlainError(<<"b", "o", "o", "m">>)] }

\* the accumulator after a load's effect, and whether the effect threw
ApplyEffect(acc, effect) ==
    IF effect.call = "setHeaders"
    THEN setHeaders(acc, <<[key |-> effect.key, value |-> effect.value]>>, 1)
    ELSE [headers |-> acc, threw |-> FALSE]

\* new Error(`"${key}" header is already set`)
AlreadySet == PlainError(<<"h", "e", "a", "d", "e", "r", " ", "i", "s", " ", "a", "l", "r", "e", "a", "d", "y", " ", "s", "e", "t">>)

\* ---- inputs
\* Accept headers: none (the default */*), a browser's form post
\* (text/html, */*;q=0.8) and a fetch that asks for JSON
AcceptHeaders ==
    { <<AcceptPart("*", "*", 10, 0)>>,
      <<AcceptPart("text", "html", 10, 0), AcceptPart("*", "*", 8, 1)>>,
      <<AcceptPart("application", "json", 10, 0)>> }

BrowserAccept == <<AcceptPart("text", "html", 10, 0), AcceptPart("*", "*", 8, 1)>>

Requests ==
    {[method |-> "GET", accept |-> BrowserAccept]}
        \cup {[method |-> "POST", accept |-> accept] : accept \in AcceptHeaders}

\* the page of the manifest (root layout 0, root error 1, leaf 2), and pages
\* under a nested layout: with the root boundary only, with a boundary at each
\* depth, with the nested layout left out, and with a nested boundary only
ManifestPage == [layouts |-> <<0>>, errors |-> <<1>>, leaf |-> 2]

Pages ==
    { ManifestPage,
      [layouts |-> <<0, 2>>, errors |-> <<1, NoNode>>, leaf |-> 3],
      [layouts |-> <<0, 2>>, errors |-> <<1, 3>>, leaf |-> 4],
      [layouts |-> <<0, NoNode>>, errors |-> <<1, 2>>, leaf |-> 3],
      [layouts |-> <<0, 2>>, errors |-> <<NoNode, 3>>, leaf |-> 4] }

\* an If-None-Match header that is absent
NoIfNoneMatch == <<"null">>

\* the If-None-Match headers a client sends: none, a tag of some other
\* content, or the entity tag it holds for this response, strong or weak
IfNoneMatchValues(resp) ==
    {NoIfNoneMatch, <<"\"", "s", "t", "a", "l", "e", "\"">>}
        \cup (IF "etag" \in DOMAIN resp.headers
              THEN {resp.headers["etag"], <<"W", "/">> \o resp.headers["etag"]}
              ELSE {})


\* ---- respond's conditional answer
\* a plausible slip: the weak-validator prefix left on the If-None-Match value
respond_if_none_match_weak_kept(resp, inm) ==
    IF resp.status = 200 /\ "etag" \in DOMAIN resp.headers
    THEN LET etag == resp.headers["etag"]
             copied == {key \in {"cache-control", "content-location", "date",
                                 "expires", "vary", "set-cookie"} :
                           key \in DOMAIN resp.headers /\ resp.headers[key] # <<>>}
         IN  IF inm = etag
             THEN Response(304,
                           [key \in {"etag"} \cup copied |->
                               IF key = "etag" THEN etag ELSE resp.headers[key]],
                           EmptyBody)
             ELSE resp
    ELSE resp

\* respond, after the handle hook: 304 if the entity tag matches, else the
\* response as it is
respond_if_none_match(resp, inm) ==
    IF resp.status = 200 /\ "etag" \in DOMAIN resp.headers
    THEN LET \* if (if_none_match_value?.startsWith('W/"')) ... substring(2)
             if_none_match_value ==
                 IF inm # NoIfNoneMatch /\ StartsWith(inm, <<"W", "/", "\"">>)
                 THEN SubSeq(inm, 3, Len(inm)) ELSE inm
             etag == resp.headers["etag"]
             copied == {key \in {"cache-control", "content-location", "date",
                                 "expires", "vary", "set-cookie"} :
                           key \in DOMAIN resp.headers /\ resp.headers[key] # <<>>}
         IN  IF if_none_match_value = etag
             THEN Response(304,
                           [key \in {"etag"} \cup copied |->
                               IF key = "etag" THEN etag ELSE resp.headers[key]],
                           EmptyBody)
             ELSE resp
    ELSE resp

\* ---- states
PageIdle ==
    /\ request = [method |-> "GET", accept |-> BrowserAccept]
    /\ page = ManifestPage
    /\ action_run = NotRun
    /\ action_result = NoActionResult
    /\ status = 200
    /\ headers = NoHeaders
    /\ cookies_to_add = NoHeaders
    /\ server_promises = <<>>
    /\ load_promises = <<>>
    /\ branch = <<>>
    /\ await_i = 0
    /\ rendered = NotRendered
    /\ response = NoResponse
    /\ if_none_match = NoIfNoneMatch
    /\ final_response = NoResponse
    /\ page_pc = "idle"

\* respond has matched the request to the page's route and the handle hook
\* has called resolve: render_page is entered
PageInit ==
    /\ request \in Requests
    /\ page \in Pages
    /\ action_run = NotRun
    /\ action_result = NoActionResult
    /\ status = 200
    /\ headers = NoHeaders
    /\ cookies_to_add = NoHeaders
    /\ server_promises = [i \in 1..(Len(page.layouts) + 1) |-> Pending(NoServerData)]
    /\ load_promises = [i \in 1..(Len(page.layouts) + 1) |-> Pending(Null)]
    /\ branch = <<>>
    /\ await_i = 1
    /\ rendered = NotRendered
    /\ response = NoResponse
    /\ if_none_match = NoIfNoneMatch
    /\ final_response = NoResponse
    /\ page_pc = "start"

\* ---- actions
\* render_page: if (is_action_json_request(event)) return handle_action_json_request
HandleActionJsonRequest ==
    /\ page_pc = "start"
    /\ is_action_json_request(request)
    /\ \E run \in ActionRuns :
          /\ action_run' = run
          /\ response' = WithAccumulated(handle_action_json_request(run).response,
                                         headers, cookies_to_add)
    /\ page_pc' = "resolved"
    /\ UNCHANGED <<request, page, action_result, status, headers, cookies_to_add,
                   server_promises, load_promises, branch, await_i, rendered,
                   if_none_match, final_response>>
    /\ UNCHANGED notPageVars

\* render_page: if (is_action_request(event)) { action_result = await
\* handle_action_request(...); ... }, which settles status or returns a redirect
HandleActionRequest ==
    /\ page_pc = "start"
    /\ ~is_action_json_request(request)
    /\ is_action_request(request)
    /\ \E run \in ActionRuns :
          LET result == handle_action_request(run)
              \* event.setHeaders({ allow: 'GET' }) when the page has no actions
              allowed == IF ~run.actions
                         THEN setHeaders(headers, <<[key |-> "Allow", value |-> <<"G", "E", "T">>]>>, 1)
                         ELSE [headers |-> headers, threw |-> FALSE]
          IN  /\ action_run' = run
              /\ action_result' = result
              /\ headers' = allowed.headers
              /\ IF result.type = "redirect"
                 THEN /\ response' = WithAccumulated(
                                         redirect_response(result.status, result.location),
                                         headers', cookies_to_add)
                      /\ page_pc' = "resolved"
                      /\ status' = status
                 ELSE /\ status' = IF result.type = "error" THEN ErrorStatus(result.error)
                                   ELSE IF result.type = "failure" THEN result.status
                                   ELSE status
                      /\ page_pc' = "loading"
                      /\ response' = response
    /\ UNCHANGED <<request, page, cookies_to_add, server_promises, load_promises,
                   branch, await_i, rendered, if_none_match, final_response>>
    /\ UNCHANGED notPageVars

\* render_page for a request that is no action request: status stays 200
NoActionRequest ==
    /\ page_pc = "start"
    /\ ~is_action_request(request)
    /\ page_pc' = "loading"
    /\ UNCHANGED <<request, page, action_run, action_result, status, headers, cookies_to_add,
                   server_promises, load_promises, branch, await_i, rendered,
                   response, if_none_match, final_response>>
    /\ UNCHANGED notPageVars

\* a plausible slip: the leaf loaded as usual after an action error, the
\* error never raised
ServerLoadOutcome_without_action_error(i, run) ==
    LET applied == ApplyEffect(headers, run.effect)
        unchanged(promise) ==
            [promise |-> promise, headers |-> headers, cookies |-> cookies_to_add]
    IN  IF Nodes[i] = NoNode \/ ~run.server
        THEN unchanged(Fulfilled(NoServerData))
        ELSE IF applied.threw
        THEN unchanged(Rejected(NoServerData, AlreadySet))
        ELSE [promise |-> IF run.error.name # "none"
                          THEN Rejected(NoServerData, run.error)
                          ELSE Fulfilled(ServerDataNode(run.data)),
              headers |-> applied.headers,
              cookies |-> IF run.effect.call = "cookies.set"
                          THEN SetHeader(cookies_to_add, run.effect.key,
                                         [name |-> run.effect.name,
                                          value |-> run.effect.value])
                          ELSE cookies_to_add]

\* what one run of the server load of depth i leaves: the settled promise, the
\* header accumulator and the cookies
ServerLoadOutcome(i, run) ==
    LET applied == ApplyEffect(headers, run.effect)
        unchanged(promise) ==
            [promise |-> promise, headers |-> headers, cookies |-> cookies_to_add]
    IN  IF i = Len(Nodes) /\ action_result.type = "error"
        THEN \* if (node === leaf_node && ...) throw action_result.error
             unchanged(Rejected(NoServerData, action_result.error))
        ELSE IF Nodes[i] = NoNode \/ ~run.server
        THEN \* if (!node?.server) return null
             unchanged(Fulfilled(NoServerData))
        ELSE IF applied.threw
        THEN unchanged(Rejected(NoServerData, AlreadySet))
        ELSE [promise |-> IF run.error.name # "none"
                          THEN Rejected(NoServerData, run.error)
                          ELSE Fulfilled(ServerDataNode(run.data)),
              headers |-> applied.headers,
              cookies |-> IF run.effect.call = "cookies.set"
                          THEN SetHeader(cookies_to_add, run.effect.key,
                                         [name |-> run.effect.name,
                                          value |-> run.effect.value])
                          ELSE cookies_to_add]

\* the task behind server_promises[i]: load_server_data for the node of depth i
LoadServerData(i) ==
    /\ page_pc = "loading"
    /\ server_promises[i].state = "pending"
    /\ \E run \in ServerLoadRuns :
          LET outcome == ServerLoadOutcome(i, run)
          IN  /\ server_promises' = [server_promises EXCEPT ![i] = outcome.promise]
              /\ headers' = outcome.headers
              /\ cookies_to_add' = outcome.cookies
    /\ UNCHANGED <<request, page, action_run, action_result, status, load_promises, branch,
                   await_i, rendered, response, if_none_match, final_response,
                   page_pc>>
    /\ UNCHANGED notPageVars

\* what one run of the universal load of depth i leaves, the server promise
\* of that depth being settled
LoadOutcome(i, run) ==
    LET server_data_node == server_promises[i]
    IN  IF server_data_node.state = "rejected"
        THEN \* await server_data_promise throws
             Rejected(Null, server_data_node.error)
        ELSE IF Nodes[i] = NoNode \/ ~run.universal
        THEN \* return server_data_node?.data ?? null
             Fulfilled(server_data_node.value.data)
        ELSE IF run.error.name # "none" THEN Rejected(Null, run.error)
        ELSE Fulfilled(run.data)

\* the task behind load_promises[i]: load_data for the node of depth i
LoadData(i) ==
    /\ page_pc = "loading"
    /\ load_promises[i].state = "pending"
    /\ server_promises[i].state # "pending"
    /\ \E run \in UniversalLoadRuns :
          load_promises' = [load_promises EXCEPT ![i] = LoadOutcome(i, run)]
    /\ UNCHANGED <<request, page, action_run, action_result, status, headers, cookies_to_add,
                   server_promises, branch, await_i, rendered, response,
                   if_none_match, final_response, page_pc>>
    /\ UNCHANGED notPageVars


\* the catch were it to keep the failed node in the branch it renders: a
\* variant of LoadFailed whose branch holds an entry for the failed depth
LoadFailed_keeps_failed_node(i, err) ==
    LET error_status == ErrorStatus(err)
        error_body == handle_error_and_jsonify(err)
        boundary == error_boundary(i - 1)
        error_branch ==
            compact(branch)
                \o <<Loaded(Nodes[i], NoServerData, Null),
                      Loaded(page.errors[boundary], NoServerData, Null)>>
    IN  IF err.name = "Redirect"
        THEN [response |-> redirect_response(err.status, err.message),
              call |-> NotRendered]
        ELSE IF boundary > 0
        THEN [response |-> render_response(error_branch, error_status, TRUE,
                                           error_body, NoActionResult),
              call |-> Rendered(error_branch, error_status, TRUE, error_body)]
        ELSE [response |-> static_error_page(error_status, error_body.message),
              call |-> NotRendered]

\* render_page's catch inside the await loop, for the error err of depth i:
\* the redirect, the page re-rendered at the nearest boundary above, or the
\* static error page; `call` is what render_response was called with, if it was
LoadFailed(i, err) ==
    LET error_status == ErrorStatus(err)
        error_body == handle_error_and_jsonify(err)
        boundary == error_boundary(i - 1)
        j == LastLoaded(branch, boundary)
        error_branch ==
            compact(SubSeq(branch, 1, j))
                \o <<Loaded(page.errors[boundary], NoServerData, Null)>>
    IN  IF err.name = "Redirect"
        THEN [response |-> redirect_response(err.status, err.message),
              call |-> NotRendered]
        ELSE IF boundary > 0
        THEN [response |-> render_response(error_branch, error_status, TRUE,
                                           error_body, NoActionResult),
              call |-> Rendered(error_branch, error_status, TRUE, error_body)]
        ELSE [response |-> static_error_page(error_status, error_body.message),
              call |-> NotRendered]

\* one turn of render_page's loop `for (let i = 0; i < nodes.length; i += 1)`:
\* a null slot for a layout the page leaves out, the loaded entry once both
\* promises of the depth are fulfilled, or the answer to the first rejection
AwaitNode ==
    /\ page_pc = "loading"
    /\ await_i <= Len(Nodes)
    /\ LET i == await_i
           server_data == server_promises[i]
           data == load_promises[i]
       IN  IF Nodes[i] = NoNode
           THEN /\ branch' = Append(branch, NullSlot)
                /\ await_i' = i + 1
                /\ UNCHANGED <<rendered, response, page_pc>>
           ELSE /\ server_data.state # "pending"
                /\ server_data.state = "rejected" \/ data.state # "pending"
                /\ IF server_data.state = "fulfilled" /\ data.state = "fulfilled"
                   THEN /\ branch' = Append(branch, Loaded(Nodes[i], server_data.value,
                                                          data.value))
                        /\ await_i' = i + 1
                        /\ UNCHANGED <<rendered, response, page_pc>>
                   ELSE LET err == IF server_data.state = "rejected"
                                   THEN server_data.error ELSE data.error
                            failed == LoadFailed(i, err)
                        IN  /\ rendered' = failed.call
                            /\ response' = WithAccumulated(failed.response, headers,
                                                           cookies_to_add)
                            /\ page_pc' = "resolved"
                            /\ UNCHANGED <<branch, await_i>>
    /\ UNCHANGED <<request, page, action_run, action_result, status, headers, cookies_to_add,
                   server_promises, load_promises, if_none_match, final_response>>
    /\ UNCHANGED notPageVars

\* render_page after the loop: render_response for the whole branch
RenderBranch ==
    /\ page_pc = "loading"
    /\ await_i = Len(Nodes) + 1
    /\ rendered' = Rendered(compact(branch), status, FALSE, [message |-> <<>>])
    /\ response' = WithAccumulated(
                       render_response(compact(branch), status, FALSE,
                                       [message |-> <<>>], action_result),
                       headers, cookies_to_add)
    /\ page_pc' = "resolved"
    /\ UNCHANGED <<request, page, action_run, action_result, status, headers, cookies_to_add,
                   server_promises, load_promises, branch, await_i, if_none_match,
                   final_response>>
    /\ UNCHANGED notPageVars

\* respond, once the handle hook has returned resolve's response: the
\* conditional answer for the request's If-None-Match header
Respond ==
    /\ page_pc = "resolved"
    /\ \E inm \in IfNoneMatchValues(response) :
          /\ if_none_match' = inm
          /\ final_response' = respond_if_none_match(response, inm)
    /\ page_pc' = "done"
    /\ UNCHANGED <<request, page, action_run, action_result, status, headers, cookies_to_add,
                   server_promises, load_promises, branch, await_i, rendered,
                   response>>
    /\ UNCHANGED notPageVars

PageNext ==
    \/ HandleActionJsonRequest
    \/ HandleActionRequest
    \/ NoActionRequest
    \/ \E i \in DOMAIN server_promises : LoadServerData(i)
    \/ \E i \in DOMAIN load_promises : LoadData(i)
    \/ AwaitNode
    \/ RenderBranch
    \/ Respond


\* ---- what the claims about a page request speak of
\* resolve has produced the response of the request
Resolved == page_pc \in {"resolved", "done"}

\* the await loop of render_page stopped at a depth whose load failed
LoadFailedAt(i) ==
    /\ Resolved
    /\ await_i = i
    /\ i <= Len(Nodes)
    /\ server_promises[i].state = "rejected" \/ load_promises[i].state = "rejected"

\* the error the await loop caught at depth i
CaughtAt(i) ==
    IF server_promises[i].state = "rejected" THEN server_promises[i].error
    ELSE load_promises[i].error

\* page.errors has an entry at depth 0 and nowhere else
RootBoundaryOnly ==
    /\ IsErrorNode(page.errors[1])
    /\ \A k \in DOMAIN page.errors : k > 1 => ~IsErrorNode(page.errors[k])

\* the load of a nested layout (neither the root layout nor the leaf) threw
\* an unexpected error, and the root declares the page's only boundary
NestedLayoutFailed ==
    /\ RootBoundaryOnly
    /\ \E i \in 2..(Len(Nodes) - 1) :
          /\ LoadFailedAt(i)
          /\ CaughtAt(i).name = "Error"

\* some server data of the entries holds a value that is still pending
HasPending(entries) ==
    \E k \in DOMAIN entries :
        \E n \in DOMAIN entries[k].server_data.data.entries :
            entries[k].server_data.data.entries[n].value = Promise

(***************************************************************************)
(* C35, as the specification states it: the response returned by           *)
(* render_response has an HTTP status equal to its status argument and     *)
(* carries the computed Content-Security-Policy and Link headers, whether  *)
(* the body is buffered or streamed. The streamed branch builds            *)
(* new Response(stream, { headers: { 'content-type': 'text/html' } }): it  *)
(* passes neither `status` nor the `headers` object.                       *)
(***************************************************************************)
C35_StatusAndHeadersKept ==
    (Resolved /\ rendered.called) =>
        /\ response.status = rendered.status
        /\ "content-security-policy" \in DOMAIN response.headers
        /\ response.headers["content-security-policy"] = page_csp_header
        /\ "link" \in DOMAIN response.headers
        /\ response.headers["link"] = LinkHeader

\* the divergence: an error page rendered around data that holds a pending
\* value is sent with status 200 and without the two headers
C35_Divergence ==
    /\ Resolved
    /\ rendered.called
    /\ rendered.has_error
    /\ rendered.status = 500
    /\ HasPending(rendered.branch)
    /\ response.status = 200
    /\ "content-security-policy" \notin DOMAIN response.headers
    /\ "link" \notin DOMAIN response.headers

\* a buffered body keeps the status argument and the two headers
C35_BufferedKeepsStatusAndHeaders ==
    (Resolved /\ rendered.called /\ ~HasPending(rendered.branch)) =>
        /\ response.status = rendered.status
        /\ response.headers["content-security-policy"] = page_csp_header
        /\ response.headers["link"] = LinkHeader

\* a buffered response with each status render_page passes
C35_BufferedStatuses ==
    /\ Resolved
    /\ rendered.called
    /\ ~HasPending(rendered.branch)
    /\ response.status = rendered.status
    /\ rendered.status \in {404, 422, 500}

\* the static error document for an unexpected error
StaticInternalError == <<"5", "0", "0", " ", "I", "n", "t", "e", "r", "n", "a", "l", " ", "E", "r", "r", "o", "r">>

(***************************************************************************)
(* C2, as the specification states it: when the load of a nested layout    *)
(* throws an unexpected error and only the root declares an error          *)
(* boundary, the response is the static error document with status 500    *)
(* and render_response is not called.                                      *)
(***************************************************************************)
C2_StaticErrorDocument ==
    NestedLayoutFailed =>
        /\ ~rendered.called
        /\ response.status = 500
        /\ response.body.text = StaticInternalError

(***************************************************************************)
(* C2, as the code has it: in that case the page is rendered again by      *)
(* render_response with status 500, the error, and a branch made of the    *)
(* root layout's loaded entry followed by the root's error node; the       *)
(* response carries status 500 when that render is buffered. The static    *)
(* error document answers a failure of the root layout's own load.         *)
(***************************************************************************)
C2_RootBoundaryRendered ==
    /\ NestedLayoutFailed =>
          /\ rendered.called
          /\ rendered.status = 500
          /\ rendered.has_error
          /\ rendered.error = [message |-> <<"I", "n", "t", "e", "r", "n", "a", "l", " ", "E", "r", "r", "o", "r">>]
          /\ rendered.branch = <<branch[1], Loaded(page.errors[1], NoServerData, Null)>>
          /\ response.body.type = "html"
          /\ response.body.text # StaticInternalError
          /\ ~HasPending(rendered.branch) => response.status = 500
    /\ (LoadFailedAt(1) /\ CaughtAt(1).name = "Error") =>
          /\ ~rendered.called
          /\ response.status = 500
          /\ response.body.text = StaticInternalError

C2_Witness ==
    /\ page_pc = "resolved"
    /\ NestedLayoutFailed
    /\ LoadFailedAt(2)
    /\ server_promises[2].state = "rejected"
    /\ branch[1].server_data = ServerDataNode(TitleHi)
    /\ rendered.called
    /\ response.status = 500

(***************************************************************************)
(* C3: for a form-encoded POST whose action returns a failure marker with  *)
(* status s and data d, a request that does not accept JSON gets a         *)
(* response with HTTP status s once the page's loads have succeeded, and a *)
(* request that accepts JSON gets the envelope                             *)
(* {type: 'failure', status: s, data: <encoded d>}.                        *)
(***************************************************************************)
C3_ActionFailure ==
    (Resolved /\ action_run.outcome = "fail") =>
        IF is_action_json_request(request)
        THEN /\ response.body.type = "json"
             /\ response.body.value.type = "failure"
             /\ response.body.value.status = action_run.status
             /\ response.body.value.data = <<"[", "{", "\"", "r", "e", "a", "s", "o", "n", "\"", ":", "1", "}", ",", "\"", "i", "n", "v", "a", "l", "i", "d", "\"", "]">>
        ELSE (rendered.called /\ ~rendered.has_error) =>
                 response.status = action_run.status

\* the divergence: the action failed with 422, every load succeeded, and the
\* page's response has status 200 because its body is streamed
C3_Divergence ==
    /\ Resolved
    /\ action_run.outcome = "fail"
    /\ ~is_action_json_request(request)
    /\ rendered.called
    /\ ~rendered.has_error
    /\ rendered.status = 422
    /\ HasPending(rendered.branch)
    /\ response.status = 200

\* the entry of the hydration payload for server data { title: 'Hi' }
TitleHiEntry == <<"{", "\"", "t", "y", "p", "e", "\"", ":", "\"", "d", "a", "t", "a", "\"", ",", "\"", "d", "a", "t", "a", "\"", ":", "{", "t", "i", "t", "l", "e", ":", "\"", "H", "i", "\"", "}", ",", "\"", "u", "s", "e", "s", "\"", ":", "{", "}", "}">>

\* a GET whose loads all succeeded and whose leaf server load returned
\* { title: 'Hi' } has been rendered
LeafReturnedTitleHi ==
    /\ Resolved
    /\ request.method = "GET"
    /\ rendered.called
    /\ ~rendered.has_error
    /\ server_promises[Len(Nodes)] = Fulfilled(ServerDataNode(TitleHi))

\* the entries of the payload that carry data (are not null)
DataEntries == SelectSeq(rendered.strings, LAMBDA str : str # <<"n", "u", "l", "l">>)

(***************************************************************************)
(* C4, as the specification states it: a GET of a page whose leaf load     *)
(* returns {title: "Hi"} yields a 200 response whose hydration payload has *)
(* a first data entry containing title: "Hi".                              *)
(***************************************************************************)
C4_FirstEntryHoldsLeafData ==
    LeafReturnedTitleHi =>
        /\ response.status = 200
        /\ DataEntries # <<>>
        /\ DataEntries[1] = TitleHiEntry

(***************************************************************************)
(* C4, as the code has it: the payload has one entry per node of the       *)
(* branch from the outermost layout to the leaf, null for a node without   *)
(* server data; the data of the leaf's server load is the last entry, and  *)
(* the response computed for the request has status 200.                   *)
(***************************************************************************)
C4_LastEntryHoldsLeafData ==
    LeafReturnedTitleHi =>
        /\ response.status = 200
        /\ Len(rendered.strings) = Len(compact(branch))
        /\ rendered.strings[Len(rendered.strings)] = TitleHiEntry
        /\ \A k \in DOMAIN rendered.strings :
              rendered.strings[k] = <<"n", "u", "l", "l">>
                  <=> compact(branch)[k].server_data = NoServerData

C4_Witness ==
    /\ page_pc = "resolved"
    /\ LeafReturnedTitleHi
    /\ Len(rendered.strings) = 3
    /\ rendered.strings[1] # TitleHiEntry
    /\ rendered.strings[1] # <<"n", "u", "l", "l">>
    /\ rendered.strings[3] = TitleHiEntry
    /\ response.status = 200


\* an If-None-Match value with a leading weak-validator prefix W/ removed
WithoutWeakPrefix(value) ==
    IF Len(value) >= 2 /\ SubSeq(value, 1, 2) = <<"W", "/">>
    THEN SubSeq(value, 3, Len(value)) ELSE value

\* the request's If-None-Match names the entity tag of the computed response
TagMatches ==
    /\ page_pc = "done"
    /\ "etag" \in DOMAIN response.headers
    /\ if_none_match # NoIfNoneMatch
    /\ WithoutWeakPrefix(if_none_match) = response.headers["etag"]

\* the headers a 304 may copy from the computed response
CacheRelevant ==
    {"cache-control", "content-location", "date", "expires", "vary", "set-cookie"}

\* respond's answer is a 304 without body whose headers are the entity tag
\* and the cache-relevant headers and set-cookie of the computed response
IsNotModified ==
    /\ final_response.status = 304
    /\ final_response.body = EmptyBody
    /\ DOMAIN final_response.headers
           = {"etag"} \cup (CacheRelevant \cap DOMAIN response.headers)
    /\ \A key \in DOMAIN final_response.headers :
          final_response.headers[key] = response.headers[key]

(***************************************************************************)
(* C5, as the specification states it: whenever the request's              *)
(* If-None-Match (weak prefix removed) equals the entity tag computed for  *)
(* the response, respond answers 304 without body, with only the entity    *)
(* tag, the cache-relevant headers and set-cookie.                         *)
(***************************************************************************)
C5_NotModifiedWheneverTagMatches == TagMatches => IsNotModified

(***************************************************************************)
(* C5, as the code has it: respond answers so when the tag matches and the *)
(* computed response has status 200; a response of any other status (an    *)
(* error page, the page of a failed action) is returned as it is, entity   *)
(* tag included.                                                           *)
(***************************************************************************)
C5_NotModifiedWhenOkAndTagMatches ==
    /\ (TagMatches /\ response.status = 200) => IsNotModified
    /\ (TagMatches /\ response.status # 200) => final_response = response

C5_Witness ==
    /\ TagMatches
    /\ response.status = 200
    /\ if_none_match = <<"W", "/">> \o response.headers["etag"]
    /\ final_response.status = 304
    /\ "cache-control" \in DOMAIN final_response.headers
    /\ "set-cookie" \in DOMAIN final_response.headers
    /\ "link" \in DOMAIN response.headers
    /\ "link" \notin DOMAIN final_response.headers

(***************************************************************************)
(* C6: the response of render_response carries an ETag header if and only  *)
(* if its body is fully buffered, that is, if the server data of the       *)
(* rendered branch holds no pending value; the tag is the quoted hash of   *)
(* the body, and a streamed response carries none.                         *)
(***************************************************************************)
C6_EtagIffBuffered ==
    (Resolved /\ rendered.called) =>
        /\ "etag" \in DOMAIN response.headers <=> ~HasPending(rendered.branch)
        /\ response.body.chunks > 0 <=> HasPending(rendered.branch)
        /\ (page_pc = "resolved" /\ "etag" \in DOMAIN response.headers) =>
              response.headers["etag"] = <<"\"">> \o hash(response.body.text) \o <<"\"">>

C6_Witness ==
    /\ page_pc = "resolved"
    /\ rendered.called
    /\ HasPending(rendered.branch)
    /\ response.body.chunks = 1
    /\ "etag" \notin DOMAIN response.headers
    /\ "content-type" \in DOMAIN response.headers

(***************************************************************************)
(* The request event and its holders (respond, resolve)                    *)
(***************************************************************************)
\* the loads of the page that are handed the event (server loads: a spread
\* copy of it) or its setHeaders (universal loads)
ServerLoads == {"layout.server", "page.server"}

UniversalLoads == {"page"}

Loads == ServerLoads \cup UniversalLoads

\* const new_cookies = {}
NoCookies == [name \in {} |-> [value |-> "", maxAge |-> -1]]

\* cookies.delete(name) written straight into new_cookies, not through
\* cookies.set: a variant of cookies_delete that the replaced set cannot stop
cookies_delete_direct(fn, new, name) ==
    [new_cookies |->
        [n \in DOMAIN new \cup {name} |->
            IF n = name THEN [value |-> "", maxAge |-> 0] ELSE new[n]],
     threw |-> FALSE]

\* cookies.set(name, value, opts) through the function the jar's `set`
\* property holds: new_cookies afterwards and whether the call threw
cookies_set(fn, new, name, value, maxAge) ==
    IF fn = "throw"
    THEN [new_cookies |-> new, threw |-> TRUE]
    ELSE [new_cookies |->
            [n \in DOMAIN new \cup {name} |->
                IF n = name THEN [value |-> value, maxAge |-> maxAge] ELSE new[n]],
          threw |-> FALSE]

\* cookies.delete(name, opts): cookies.set(name, '', { ...opts, maxAge: 0 })
cookies_delete(fn, new, name) == cookies_set(fn, new, name, "", 0)

\* a call of the setHeaders function `fn` refers to: the original closure
\* writes the accumulator, the one resolve installs throws
call_setHeaders(fn, acc, new_headers) ==
    IF fn = "throw"
    THEN [headers |-> acc, threw |-> TRUE]
    ELSE setHeaders(acc, new_headers, 1)

\* ---- inputs
\* the objects setHeaders is called with: one header, or three of which the
\* second may have been set by an earlier call and the last is set-cookie
HeaderWrites ==
    { <<[key |-> "Cache-Control", value |-> SetsCacheControl.value]>>,
      <<[key |-> "vary", value |-> <<"a", "c", "c", "e", "p", "t">>]>>,
      <<[key |-> "age", value |-> <<"0">>],
        [key |-> "cache-control", value |-> <<"n", "o", "-", "s", "t", "o", "r", "e">>],
        [key |-> "Set-Cookie", value |-> <<"s", "i", "d", "=", "1">>]>> }

JarNames == {"sid", "theme"}

\* ---- states
Call(by, call, late, threw, changed) ==
    [by |-> by, call |-> call, late |-> late, threw |-> threw, changed |-> changed]

NoCall == Call("none", "none", FALSE, FALSE, FALSE)

NotStarted == [state |-> "waiting", setHeaders |-> "none"]

NothingEmitted == [headers |-> NoHeaders, cookies |-> NoCookies]

EventIdle ==
    /\ event_setHeaders = "write"
    /\ cookies_set_fn = "store"
    /\ event_headers = NoHeaders
    /\ event_cookies = NoCookies
    /\ holders = [l \in Loads |-> NotStarted]
    /\ emitted = NothingEmitted
    /\ last_call = NoCall
    /\ event_pc = "idle"

\* respond: the event as it is handed to options.hooks.handle
EventInit ==
    /\ event_setHeaders = "write"
    /\ cookies_set_fn = "store"
    /\ event_headers = NoHeaders
    /\ event_cookies = NoCookies
    /\ holders = [l \in Loads |-> NotStarted]
    /\ emitted = NothingEmitted
    /\ last_call = NoCall
    /\ event_pc = "handle"

\* ---- actions
\* a call of setHeaders by `by` through the function `fn` its reference holds
SetHeadersBy(by, fn) ==
    /\ \E new_headers \in HeaderWrites :
          LET result == call_setHeaders(fn, event_headers, new_headers)
          IN  /\ event_headers' = result.headers
              /\ last_call' = Call(by, "setHeaders", event_pc = "resolved",
                                   result.threw, result.headers # event_headers)
    /\ UNCHANGED <<event_setHeaders, cookies_set_fn, event_cookies, holders,
                   emitted, event_pc>>
    /\ UNCHANGED notEventVars

\* a call of event.cookies.set by `by`: every holder has the one jar object,
\* whose `set` property is read when the call is made
CookiesSetBy(by) ==
    /\ \E name \in JarNames :
          LET result == cookies_set(cookies_set_fn, event_cookies, name, "1", -1)
          IN  /\ event_cookies' = result.new_cookies
              /\ last_call' = Call(by, "cookies.set", event_pc = "resolved",
                                   result.threw,
                                   result.new_cookies # event_cookies)
    /\ UNCHANGED <<event_setHeaders, cookies_set_fn, event_headers, holders,
                   emitted, event_pc>>
    /\ UNCHANGED notEventVars

\* a call of event.cookies.delete by `by`
CookiesDeleteBy(by) ==
    /\ \E name \in JarNames :
          LET result == cookies_delete(cookies_set_fn, event_cookies, name)
          IN  /\ event_cookies' = result.new_cookies
              /\ last_call' = Call(by, "cookies.delete", event_pc = "resolved",
                                   result.threw,
                                   result.new_cookies # event_cookies)
    /\ UNCHANGED <<event_setHeaders, cookies_set_fn, event_headers, holders,
                   emitted, event_pc>>
    /\ UNCHANGED notEventVars

\* the handle hook, before it calls resolve, while resolve runs, or after
\* resolve has returned: event.setHeaders is read from the event itself
HandleSetHeaders ==
    /\ event_pc # "idle"
    /\ SetHeadersBy("handle", event_setHeaders)

HandleCookiesSet ==
    /\ event_pc # "idle"
    /\ CookiesSetBy("handle")

HandleCookiesDelete ==
    /\ event_pc # "idle"
    /\ CookiesDeleteBy("handle")

\* options.hooks.handle({ event, resolve }) calls resolve(event)
CallResolve ==
    /\ event_pc = "handle"
    /\ event_pc' = "resolve"
    /\ UNCHANGED <<event_setHeaders, cookies_set_fn, event_headers, event_cookies,
                   holders, emitted, last_call>>
    /\ UNCHANGED notEventVars

\* load_server_data: node.server.load.call(null, { ...event, ... }); the
\* copy holds the setHeaders the event has at this moment. render_page starts
\* every server load before it awaits any
StartServerLoad(l) ==
    /\ event_pc = "resolve"
    /\ l \in ServerLoads
    /\ holders[l].state = "waiting"
    /\ holders' = [holders EXCEPT
                     ![l] = [state |-> "running", setHeaders |-> event_setHeaders]]
    /\ UNCHANGED <<event_setHeaders, cookies_set_fn, event_headers, event_cookies,
                   emitted, last_call, event_pc>>
    /\ UNCHANGED notEventVars

\* load_data: after `await server_data_promise`, node.universal.load.call(null,
\* { ..., setHeaders: event.setHeaders, ... }); the await may end after
\* render_page has returned on another node's error
StartUniversalLoad(l) ==
    /\ event_pc \in {"resolve", "resolved"}
    /\ l \in UniversalLoads
    /\ holders[l].state = "waiting"
    /\ holders' = [holders EXCEPT
                     ![l] = [state |-> "running", setHeaders |-> event_setHeaders]]
    /\ UNCHANGED <<event_setHeaders, cookies_set_fn, event_headers, event_cookies,
                   emitted, last_call, event_pc>>
    /\ UNCHANGED notEventVars

\* a load that has not returned calls the setHeaders it was given
LoadSetHeaders(l) ==
    /\ holders[l].state = "running"
    /\ SetHeadersBy(l, holders[l].setHeaders)

\* a server load that has not returned calls event.cookies.set / delete
LoadCookiesSet(l) ==
    /\ l \in ServerLoads
    /\ holders[l].state = "running"
    /\ CookiesSetBy(l)

LoadCookiesDelete(l) ==
    /\ l \in ServerLoads
    /\ holders[l].state = "running"
    /\ CookiesDeleteBy(l)

LoadReturns(l) ==
    /\ holders[l].state = "running"
    /\ holders' = [holders EXCEPT ![l].state = "returned"]
    /\ UNCHANGED <<event_setHeaders, cookies_set_fn, event_headers, event_cookies,
                   emitted, last_call, event_pc>>
    /\ UNCHANGED notEventVars

\* resolve returns, whatever loads are still running: its `finally` replaces
\* event.cookies.set and event.setHeaders, then the continuation in respond
\* copies the accumulator and the cookies onto the response
ResolveReturns ==
    /\ event_pc = "resolve"
    /\ cookies_set_fn' = "throw"
    /\ event_setHeaders' = "throw"
    /\ emitted' = [headers |-> event_headers, cookies |-> event_cookies]
    /\ event_pc' = "resolved"
    /\ UNCHANGED <<event_headers, event_cookies, holders, last_call>>
    /\ UNCHANGED notEventVars

EventNext ==
    \/ HandleSetHeaders
    \/ HandleCookiesSet
    \/ HandleCookiesDelete
    \/ CallResolve
    \/ \E l \in Loads :
          \/ StartServerLoad(l)
          \/ StartUniversalLoad(l)
          \/ LoadSetHeaders(l)
          \/ LoadCookiesSet(l)
          \/ LoadCookiesDelete(l)
          \/ LoadReturns(l)
    \/ ResolveReturns

\* ---- what the claims about the event after the response speak of
LateCall(calls) == last_call.late /\ last_call.call \in calls

(***************************************************************************)
(* C12: once resolve has computed the response for a request, every later  *)
(* cookies.set call on the request's cookie jar, and every cookies.delete  *)
(* (which goes through set), throws and leaves the cookies to emit         *)
(* unchanged, whichever holder of the jar makes the call: the handle hook  *)
(* or a load function still in flight.                                     *)
(***************************************************************************)
C12_LateCookieWritesThrow ==
    /\ LateCall({"cookies.set", "cookies.delete"})
          => last_call.threw /\ ~last_call.changed
    /\ event_pc = "resolved" => event_cookies = emitted.cookies

C12_Witness ==
    /\ LateCall({"cookies.delete"})
    /\ last_call.by \in ServerLoads
    /\ holders[last_call.by].setHeaders = "write"
    /\ last_call.threw
    /\ event_cookies # NoCookies

(***************************************************************************)
(* C13: once the response for a request has been produced, every later     *)
(* write to the request's header accumulator fails and leaves it           *)
(* unchanged, including a write made through the setHeaders reference that *)
(* was handed to a load function before the response was produced.         *)
(***************************************************************************)
C13_LateHeaderWritesFail ==
    /\ LateCall({"setHeaders"}) => last_call.threw /\ ~last_call.changed
    /\ event_pc = "resolved" => event_headers = emitted.headers

\* a load given setHeaders before the response writes the accumulator after it
C13_Divergence ==
    /\ LateCall({"setHeaders"})
    /\ last_call.by \in Loads
    /\ ~last_call.threw
    /\ last_call.changed
    /\ event_headers # emitted.headers

(***************************************************************************)
(* Data requests (render_data, get_data_json)                              *)
(***************************************************************************)
\* the number of nodes of the page a data request is for: a layout and a leaf
DataNodeCount == 2

\* an element of the array Promise.all yields: null, { type: 'skip' },
\* { type: 'data', data }, or { type: 'error', error, status } (status 0 when
\* it is undefined)
DataNode(type, data, err, node_status) ==
    [type |-> type, data |-> data, error |-> err, status |-> node_status]

NullNode == DataNode("null", Null, [message |-> <<>>], 0)

SkippedNode == DataNode("skip", Null, [message |-> <<>>], 0)

\* the promise of one node's server data
NodePromise(state, node, err) == [state |-> state, node |-> node, error |-> err]

\* load_server_data for one node of a data request: the node has no server
\* load, or the load returns data, or it throws
DataLoadRuns ==
    { NodePromise("fulfilled", NullNode, NoError),
      NodePromise("fulfilled", DataNode("data", TitleHi, [message |-> <<>>], 0), NoError),
      NodePromise("fulfilled", DataNode("data", Streamed, [message |-> <<>>], 0), NoError),
      NodePromise("rejected", NullNode, error(403, <<"n", "o">>)),
      NodePromise("rejected", NullNode, PlainError(<<"b", "o", "o", "m">>)),
      NodePromise("rejected", NullNode, Redirect(307, <<"/", "l", "o", "g", "i", "n">>)),
      NodePromise("rejected", NullNode, Redirect(302, <<"/", "o", "t", "h", "e", "r">>)) }

\* p.catch(async (error) => { if (error instanceof Redirect) throw error; ... })
\* for a settled promise that did not reject with a Redirect
MappedNode(p) ==
    IF p.state = "fulfilled" THEN p.node
    ELSE DataNode("error", Null, handle_error_and_jsonify(p.error),
                  IF p.error.name = "HttpError" THEN p.error.status ELSE 0)

\* devalue's stringify with the Promise reducer, for the properties from k on,
\* the next free index being index and the next placeholder id being id
RECURSIVE StringifyReduced(_, _, _, _)
StringifyReduced(entries, k, index, id) ==
    IF k > Len(entries) THEN [keys |-> <<>>, values |-> <<>>, id |-> id]
    ELSE LET thenable == entries[k].value = Promise
             rest == StringifyReduced(entries, k + 1,
                                      IF thenable THEN index + 2 ELSE index + 1,
                                      IF thenable THEN id + 1 ELSE id)
             value == IF thenable
                      THEN <<<<"[", "\"", "P", "r", "o", "m", "i", "s", "e", "\"", ",">> \o NumberToString(index + 1) \o <<"]">>,
                             NumberToString(id)>>
                      ELSE <<<<"\"">> \o entries[k].value \o <<"\"">>>>
         IN  [keys |-> <<<<"\"">> \o entries[k].key \o <<"\"", ":">> \o NumberToString(index)>>
                           \o rest.keys,
              values |-> value \o rest.values,
              id |-> rest.id]

\* stringify(node.data, reducers): [str, id]
stringify(value, id) ==
    IF value.type = "null" THEN [str |-> <<"[", "n", "u", "l", "l", "]">>, id |-> id]
    ELSE LET properties == StringifyReduced(value.entries, 1, 1, id)
         IN  [str |-> <<"[", "{">> \o JoinWith(properties.keys, <<",">>) \o <<"}">>
                         \o JoinWith(<<<<>>>> \o properties.values, <<",">>) \o <<"]">>,
              id |-> properties.id]

\* JSON.stringify(node) for an error or skip node
StringifyNode(node) ==
    IF node.type = "skip" THEN <<"{", "\"", "t", "y", "p", "e", "\"", ":", "\"", "s", "k", "i", "p", "\"", "}">>
    ELSE <<"{", "\"", "t", "y", "p", "e", "\"", ":", "\"", "e", "r", "r", "o", "r", "\"", ",", "\"", "e", "r", "r", "o", "r", "\"", ":", "{", "\"", "m", "e", "s", "s", "a", "g", "e", "\"", ":", "\"">> \o node.error.message \o <<"\"", "}">>
            \o (IF node.status = 0 THEN <<>>
                ELSE <<",", "\"", "s", "t", "a", "t", "u", "s", "\"", ":">> \o NumberToString(node.status))
            \o <<"}">>

\* nodes.map(...) of get_data_json from node k on: [strings, id]
RECURSIVE DataJsonStrings(_, _, _)
DataJsonStrings(nodes, k, id) ==
    IF k > Len(nodes) THEN [strings |-> <<>>, id |-> id]
    ELSE LET node == nodes[k]
             data == stringify(node.data, id)
             str == IF node.type = "null" THEN <<"n", "u", "l", "l">>
                    ELSE IF node.type \in {"error", "skip"} THEN StringifyNode(node)
                    ELSE <<"{", "\"", "t", "y", "p", "e", "\"", ":", "\"", "d", "a", "t", "a", "\"", ",", "\"", "d", "a", "t", "a", "\"", ":">> \o data.str \o <<",", "\"", "u", "s", "e", "s", "\"", ":", "{", "}", "}">>
             rest == DataJsonStrings(nodes, k + 1,
                                     IF node.type = "data" THEN data.id ELSE id)
         IN  [strings |-> <<str>> \o rest.strings, id |-> rest.id]

\* get_data_json(event, options, nodes): the payload text and the number of
\* values still pending (chunks is non-null exactly when it is positive)
get_data_json(nodes) ==
    LET result == DataJsonStrings(nodes, 1, 1)
    IN  [data |-> <<"{", "\"", "t", "y", "p", "e", "\"", ":", "\"", "d", "a", "t", "a", "\"", ",", "\"", "n", "o", "d", "e", "s", "\"", ":", "[">> \o JoinWith(result.strings, <<",">>)
                     \o <<"]", "}">>,
         count |-> result.id - 1]

\* the headers json_response sets
JsonHeaders ==
    SetHeader(SetHeader(NoHeaders, "content-type", <<"a", "p", "p", "l", "i", "c", "a", "t", "i", "o", "n", "/", "j", "s", "o", "n">>),
              "cache-control", <<"p", "r", "i", "v", "a", "t", "e", ",", " ", "n", "o", "-", "s", "t", "o", "r", "e">>)

\* json_response(json, status) for a string
json_response(json, response_status) == text(json, response_status, JsonHeaders)

\* a redirect answered with the status of the Redirect as well: a variant of
\* redirect_json_response that a client reading the body cannot tell apart
redirect_json_response_with_status(redirect) ==
    json_response(<<"{", "\"", "t", "y", "p", "e", "\"", ":", "\"", "r", "e", "d", "i", "r", "e", "c", "t", "\"", ",", "\"", "l", "o", "c", "a", "t", "i", "o", "n", "\"", ":", "\"">> \o redirect.message \o <<"\"", "}">>,
                  redirect.status)

\* redirect_json_response(redirect)
redirect_json_response(redirect) ==
    json_response(<<"{", "\"", "t", "y", "p", "e", "\"", ":", "\"", "r", "e", "d", "i", "r", "e", "c", "t", "\"", ",", "\"", "l", "o", "c", "a", "t", "i", "o", "n", "\"", ":", "\"">> \o redirect.message \o <<"\"", "}">>,
                  200)

\* new Response(new ReadableStream(...), { headers }): the data, then a chunk
\* per pending value
DataStream(data, pending) ==
    Response(200,
             SetHeader(SetHeader(NoHeaders, "content-type", <<"t", "e", "x", "t", "/", "s", "v", "e", "l", "t", "e", "k", "i", "t", "-", "d", "a", "t", "a">>),
                       "cache-control", <<"p", "r", "i", "v", "a", "t", "e", ",", " ", "n", "o", "-", "s", "t", "o", "r", "e">>),
             HtmlBody(data, pending))

\* ---- states
PendingNode == NodePromise("pending", NullNode, NoError)

DataIdle ==
    /\ invalidated = <<>>
    /\ data_promises = <<>>
    /\ data_response = NoResponse
    /\ data_pc = "idle"

\* render_data up to Promise.all: a node that is not invalidated resolves to
\* { type: 'skip' } at once, the others run load_server_data
DataInit ==
    /\ invalidated \in [1..DataNodeCount -> BOOLEAN]
    /\ data_promises =
          [i \in 1..DataNodeCount |->
              IF invalidated[i] THEN PendingNode
              ELSE NodePromise("fulfilled", SkippedNode, NoError)]
    /\ data_response = NoResponse
    /\ data_pc = "loading"

\* ---- actions
\* the promise of node i settles. A Redirect rejects Promise.all, and the
\* catch of render_data answers with it; the first to reject is the one caught.
\* A load that is still running when the response is returned runs on
DataLoadSettles(i) ==
    /\ data_pc \in {"loading", "done"}
    /\ data_promises[i].state = "pending"
    /\ \E run \in DataLoadRuns :
          /\ data_promises' = [data_promises EXCEPT ![i] = run]
          /\ IF data_pc = "loading" /\ run.error.name = "Redirect"
             THEN /\ data_response' = redirect_json_response(run.error)
                  /\ data_pc' = "done"
             ELSE UNCHANGED <<data_response, data_pc>>
    /\ UNCHANGED invalidated
    /\ UNCHANGED notDataVars

\* Promise.all fulfils: get_data_json, then a JSON response or a stream
DataReturn ==
    /\ data_pc = "loading"
    /\ \A i \in DOMAIN data_promises : data_promises[i].state # "pending"
    /\ LET nodes == [i \in DOMAIN data_promises |-> MappedNode(data_promises[i])]
           result == get_data_json(nodes)
       IN  data_response' = IF result.count = 0
                            THEN json_response(result.data, 200)
                            ELSE DataStream(result.data, result.count)
    /\ data_pc' = "done"
    /\ UNCHANGED <<invalidated, data_promises>>
    /\ UNCHANGED notDataVars

DataNext ==
    \/ \E i \in 1..DataNodeCount : DataLoadSettles(i)
    \/ DataReturn

\* ---- what the claim about redirects thrown by loads speaks of
\* resp is the bare redirect response for the Redirect err
IsRedirectOf(resp, err) ==
    /\ resp.status = err.status
    /\ "location" \in DOMAIN resp.headers
    /\ resp.headers["location"] = err.message
    /\ resp.body = EmptyBody

\* the server load of depth i of the page threw a Redirect
ThrewRedirect(i) ==
    /\ server_promises[i].state = "rejected"
    /\ server_promises[i].error.name = "Redirect"

\* the load of node i of the data request threw a Redirect
DataThrewRedirect(i) ==
    /\ data_promises[i].state = "rejected"
    /\ data_promises[i].error.name = "Redirect"

C14_Divergence ==
    \E i, j \in DOMAIN server_promises :
        /\ i < j
        /\ LoadFailedAt(i)
        /\ CaughtAt(i).name = "Error"
        /\ ThrewRedirect(j)
        /\ response.status = 500

(***************************************************************************)
(* Streamed chunks (create_async_iterator, get_data, get_data_json)        *)
(***************************************************************************)
\* the most placeholder ids an initial payload holds, and the most ids a
\* serializer hands out in all (values may resolve to further pending values)
MaxPlaceholders == 2

MaxPromiseIds == 3

\* a deferred of create_async_iterator: pending, or fulfilled with
\* { value, done: false } or { done: true }
Chunk(id, key) == [id |-> id, key |-> key]

NoChunk == Chunk(0, "none")

PendingDeferred == [state |-> "pending", value |-> NoChunk]

\* deferred[deferred.length - 1].fulfil(next): a promise settles once
fulfil(list, state, value) ==
    IF list[Len(list)].state = "pending"
    THEN [list EXCEPT ![Len(list)] = [state |-> state, value |-> value]]
    ELSE list

\* push(value)
push(list, value) == Append(fulfil(list, "value", value), PendingDeferred)

\* done()
done(list) == fulfil(list, "done", NoChunk)

\* whether the callback of serializer `which` has done its `count -= 1` before
\* it tries to serialize the value (get_data), or does it after (get_data_json)
counts_before_retry(which) == which = "get_data"

\* push(chunk); if (count === 0) done();
push_and_finish(list, value, outstanding) ==
    IF outstanding = 0 THEN done(push(list, value)) ELSE push(list, value)

\* ---- states
StreamIdle ==
    /\ serializer = "none"
    /\ placeholders = 0
    /\ thenables = <<>>
    /\ promise_id = 1
    /\ count = 0
    /\ deferred = <<>>
    /\ delivered = <<>>
    /\ closed = FALSE

\* the serializer has returned { data, chunks } with count > 0: the initial
\* payload holds the placeholder ids 1..placeholders, each a pending value
\* with its handlers attached
StreamInit ==
    /\ serializer \in {"get_data", "get_data_json"}
    /\ placeholders \in 1..MaxPlaceholders
    /\ thenables = [id \in 1..MaxPromiseIds |->
                       IF id <= placeholders THEN "pending" ELSE "unused"]
    /\ promise_id = placeholders + 1
    /\ count = placeholders
    /\ deferred = <<PendingDeferred>>
    /\ delivered = <<>>
    /\ closed = FALSE

\* ---- actions
\* the pending value `id` resolves to data that serializes, with `nested`
\* further pending values in it: the callback runs in one piece. The replacer
\* (reducer) counts each nested value and hands it the next id
Resolves(id) ==
    /\ thenables[id] = "pending"
    /\ \E nested \in {0, 1} :
          /\ promise_id + nested - 1 <= MaxPromiseIds
          /\ thenables' = [n \in DOMAIN thenables |->
                              IF n = id THEN "pushed"
                              ELSE IF nested = 1 /\ n = promise_id THEN "pending"
                              ELSE thenables[n]]
          /\ promise_id' = promise_id + nested
          /\ count' = count - 1 + nested
          /\ deferred' = push_and_finish(deferred, Chunk(id, "data"),
                                         count - 1 + nested)
    /\ UNCHANGED <<serializer, placeholders, delivered, closed>>
    /\ UNCHANGED notStreamVars

\* the pending value `id` rejects: the catch handler awaits
\* handle_error_and_jsonify before the callback is called
Rejects(id) ==
    /\ thenables[id] = "pending"
    /\ thenables' = [thenables EXCEPT ![id] = "caught"]
    /\ UNCHANGED <<serializer, placeholders, promise_id, count, deferred,
                   delivered, closed>>
    /\ UNCHANGED notStreamVars

\* the callback for a rejected value: the error serializes
PushesError(id) ==
    /\ thenables[id] = "caught"
    /\ thenables' = [thenables EXCEPT ![id] = "pushed"]
    /\ count' = count - 1
    /\ deferred' = push_and_finish(deferred, Chunk(id, "error"), count - 1)
    /\ UNCHANGED <<serializer, placeholders, promise_id, delivered, closed>>
    /\ UNCHANGED notStreamVars

\* the pending value `id` resolves to data that does not serialize: the
\* callback runs up to `await handle_error_and_jsonify(...)` in its catch
FailsToSerialize(id) ==
    /\ thenables[id] = "pending"
    /\ thenables' = [thenables EXCEPT ![id] = "failed"]
    /\ count' = IF counts_before_retry(serializer) THEN count - 1 ELSE count
    /\ UNCHANGED <<serializer, placeholders, promise_id, deferred, delivered,
                   closed>>
    /\ UNCHANGED notStreamVars

\* the rest of that callback, once handle_error_and_jsonify has returned
PushesSerializeError(id) ==
    /\ thenables[id] = "failed"
    /\ thenables' = [thenables EXCEPT ![id] = "pushed"]
    /\ LET outstanding ==
               IF counts_before_retry(serializer) THEN count ELSE count - 1
       IN  /\ count' = outstanding
           /\ deferred' = push_and_finish(deferred, Chunk(id, "error"), outstanding)
    /\ UNCHANGED <<serializer, placeholders, promise_id, delivered, closed>>
    /\ UNCHANGED notStreamVars

\* the consumer's next(): await deferred[0].promise; shift unless it is done
ConsumerNext ==
    /\ ~closed
    /\ deferred[1].state # "pending"
    /\ IF deferred[1].state = "done"
       THEN /\ closed' = TRUE
            /\ UNCHANGED <<deferred, delivered>>
       ELSE /\ delivered' = Append(delivered, deferred[1].value)
            /\ deferred' = Tail(deferred)
            /\ UNCHANGED closed
    /\ UNCHANGED <<serializer, placeholders, thenables, promise_id, count>>
    /\ UNCHANGED notStreamVars

StreamNext ==
    \/ \E id \in 1..MaxPromiseIds :
          \/ Resolves(id)
          \/ Rejects(id)
          \/ PushesError(id)
          \/ FailsToSerialize(id)
          \/ PushesSerializeError(id)
    \/ ConsumerNext

\* ---- what the claim about the chunks speaks of
\* how many of the delivered chunks carry `id`
DeliveredFor(id) == Cardinality({k \in DOMAIN delivered : delivered[k].id = id})

(***************************************************************************)
(* C15: for both serializers, for every placeholder id emitted in the      *)
(* initial payload exactly one follow-up chunk carrying that id is         *)
(* delivered to the consumer, and the chunk sequence completes only after  *)
(* all such chunks have been delivered, under every order in which the     *)
(* pending values settle, including values that reject, that resolve to    *)
(* further pending values, and that fail to serialize.                     *)
(***************************************************************************)
C15_EveryPlaceholderDelivered ==
    /\ \A id \in 1..MaxPromiseIds : DeliveredFor(id) <= 1
    /\ closed => \A id \in 1..placeholders : DeliveredFor(id) = 1

\* the document's chunk sequence has completed without the chunk of a value
\* that failed to serialize
C15_Divergence ==
    /\ serializer = "get_data"
    /\ closed
    /\ \E id \in 1..placeholders : DeliveredFor(id) = 0 /\ thenables[id] = "pushed"

\* get_data_json's sequence completes with every chunk delivered
C15_DataJsonComplete ==
    serializer = "get_data_json"
        => /\ \A id \in 1..MaxPromiseIds : DeliveredFor(id) <= 1
           /\ closed => \A id \in 1..(promise_id - 1) : DeliveredFor(id) = 1

(***************************************************************************)
(* Form actions (call_action, handle_action_request,                       *)
(* handle_action_json_request)                                             *)
(***************************************************************************)
\* String.prototype.toLowerCase for the letters of a media type
UpperCase == <<"A", "B", "C", "D", "E", "F", "G", "H", "I", "J", "K", "L", "M", "N", "O", "P", "Q", "R", "S", "T", "U", "V", "W", "X", "Y", "Z">>

LowerCase == <<"a", "b", "c", "d", "e", "f", "g", "h", "i", "j", "k", "l", "m", "n", "o", "p", "q", "r", "s", "t", "u", "v", "w", "x", "y", "z">>

LowerChar(c) ==
    IF \E k \in DOMAIN UpperCase : UpperCase[k] = c
    THEN LowerCase[CHOOSE k \in DOMAIN UpperCase : UpperCase[k] = c]
    ELSE c

LowerString(s) == [k \in DOMAIN s |-> LowerChar(s[k])]

\* String.prototype.trim for spaces
RECURSIVE trim(_)
trim(s) ==
    IF s = <<>> THEN s
    ELSE IF Head(s) = " " THEN trim(Tail(s))
    ELSE IF s[Len(s)] = " " THEN trim(SubSeq(s, 1, Len(s) - 1))
    ELSE s

\* content_type.split(';', 1)[0]
RECURSIVE BeforeSemicolon(_)
BeforeSemicolon(content_type) ==
    IF content_type = <<>> \/ Head(content_type) = ";" THEN <<>>
    ELSE <<Head(content_type)>> \o BeforeSemicolon(Tail(content_type))

\* is_content_type(request, ...types); content_type is <<>> without the header
is_content_type(content_type, types) ==
    LowerString(trim(BeforeSemicolon(content_type))) \in types

\* is_form_content_type(request)
is_form_content_type(content_type) ==
    is_content_type(content_type,
                    {<<"a", "p", "p", "l", "i", "c", "a", "t", "i", "o", "n", "/", "x", "-", "w", "w", "w", "-", "f", "o", "r", "m", "-", "u", "r", "l", "e", "n", "c", "o", "d", "e", "d">>, <<"m", "u", "l", "t", "i", "p", "a", "r", "t", "/", "f", "o", "r", "m", "-", "d", "a", "t", "a">>,
                     <<"t", "e", "x", "t", "/", "p", "l", "a", "i", "n">>})

\* the name taken from the last key that begins with a slash: a variant of
\* call_action's loop without its `break`
RECURSIVE action_name_last_key(_, _)
action_name_last_key(query, k) ==
    IF k > Len(query) THEN [name |-> <<"d", "e", "f", "a", "u", "l", "t">>, reserved |-> FALSE]
    ELSE LET rest == action_name_last_key(query, k + 1)
         IN  IF rest.name # <<"d", "e", "f", "a", "u", "l", "t">> \/ rest.reserved THEN rest
             ELSE IF StartsWith(query[k], <<"/">>)
             THEN [name |-> Tail(query[k]), reserved |-> Tail(query[k]) = <<"d", "e", "f", "a", "u", "l", "t">>]
             ELSE rest

\* call_action's loop over url.searchParams from the k-th key on: the name it
\* settles on and whether it threw on the reserved name
RECURSIVE action_name(_, _)
action_name(query, k) ==
    IF k > Len(query) THEN [name |-> <<"d", "e", "f", "a", "u", "l", "t">>, reserved |-> FALSE]
    ELSE IF StartsWith(query[k], <<"/">>)
    THEN [name |-> Tail(query[k]), reserved |-> Tail(query[k]) = <<"d", "e", "f", "a", "u", "l", "t">>]
    ELSE action_name(query, k + 1)

\* a run of call_action: what it returned or threw
ActionRun(outcome, run_status, data, err) ==
    [actions |-> TRUE, outcome |-> outcome, status |-> run_status, data |-> data,
     error |-> err]

ReservedNameError == PlainError(<<"C", "a", "n", "n", "o", "t", " ", "u", "s", "e", " ", "r", "e", "s", "e", "r", "v", "e", "d", " ", "a", "c", "t", "i", "o", "n", " ", "n", "a", "m", "e", " ", "\"", "d", "e", "f", "a", "u", "l", "t", "\"">>)

NoSuchActionError == PlainError(<<"N", "o", " ", "a", "c", "t", "i", "o", "n", " ", "w", "i", "t", "h", " ", "n", "a", "m", "e", " ", "f", "o", "u", "n", "d">>)

NotFormError == PlainError(<<"A", "c", "t", "i", "o", "n", "s", " ", "e", "x", "p", "e", "c", "t", " ", "f", "o", "r", "m", "-", "e", "n", "c", "o", "d", "e", "d", " ", "d", "a", "t", "a">>)

\* call_action were it to leave out its is_form_content_type test: a variant
\* that invokes the action whatever the body's content-type
call_action_any_content_type(names, query, content_type, behaviour) ==
    LET selected == action_name(query, 1)
    IN  IF selected.reserved
        THEN [run |-> ActionRun("throw", 0, Null, ReservedNameError), invoked |-> <<>>]
        ELSE IF selected.name \notin names
        THEN [run |-> ActionRun("throw", 0, Null, NoSuchActionError), invoked |-> <<>>]
        ELSE [run |-> behaviour, invoked |-> <<selected.name>>]

\* call_action(event, actions): [run, invoked], invoked being the name of the
\* action that was called, <<>> when none was
call_action(names, query, content_type, behaviour) ==
    LET selected == action_name(query, 1)
    IN  IF selected.reserved
        THEN [run |-> ActionRun("throw", 0, Null, ReservedNameError), invoked |-> <<>>]
        ELSE IF selected.name \notin names
        THEN [run |-> ActionRun("throw", 0, Null, NoSuchActionError), invoked |-> <<>>]
        ELSE IF ~is_form_content_type(content_type)
        THEN [run |-> ActionRun("throw", 0, Null, NotFormError), invoked |-> <<>>]
        ELSE [run |-> behaviour, invoked |-> <<selected.name>>]

\* check_named_default_separate were it to let every set of actions pass
check_named_default_separate_passes(names) == FALSE

\* check_named_default_separate(actions) throws
check_named_default_separate(names) ==
    <<"d", "e", "f", "a", "u", "l", "t">> \in names /\ Cardinality(names) > 1

\* what the responders get from the page's actions: no actions, the error of
\* check_named_default_separate, or the run of call_action
RunOf(actions, query, content_type, behaviour) ==
    IF ~actions.exported
    THEN [run |-> [actions |-> FALSE, outcome |-> "none", status |-> 0,
                   data |-> Null, error |-> NoError],
          invoked |-> <<>>]
    ELSE IF check_named_default_separate(actions.names)
    THEN [run |-> ActionRun("mixed", 0, Null, NoError), invoked |-> <<>>]
    ELSE call_action(actions.names, query, content_type, behaviour)

\* ---- inputs
\* Accept headers: none, a browser's form post, a fetch that asks for JSON
ActionAcceptHeaders ==
    { <<>>,
      <<AcceptPart("text", "html", 10, 0), AcceptPart("*", "*", 8, 1)>>,
      <<AcceptPart("application", "json", 10, 0)>> }

\* request.headers.get('accept') ?? fallback
AcceptOr(accept, fallback) == IF accept = <<>> THEN <<fallback>> ELSE accept

ContentTypes ==
    { <<>>, <<"a", "p", "p", "l", "i", "c", "a", "t", "i", "o", "n", "/", "x", "-", "w", "w", "w", "-", "f", "o", "r", "m", "-", "u", "r", "l", "e", "n", "c", "o", "d", "e", "d">>,
      <<"m", "u", "l", "t", "i", "p", "a", "r", "t", "/", "f", "o", "r", "m", "-", "d", "a", "t", "a", ";", " ", "b", "o", "u", "n", "d", "a", "r", "y", "=", "x">>, <<"a", "p", "p", "l", "i", "c", "a", "t", "i", "o", "n", "/", "j", "s", "o", "n">>,
      <<"T", "e", "x", "t", "/", "P", "l", "a", "i", "n", ";", " ", "c", "h", "a", "r", "s", "e", "t", "=", "u", "t", "f", "-", "8">> }

Queries ==
    { <<>>, <<<<"q">>>>, <<<<"/", "s", "u", "b", "s", "c", "r", "i", "b", "e">>>>, <<<<"q">>, <<"/", "s", "u", "b", "s", "c", "r", "i", "b", "e">>>>,
      <<<<"/", "l", "o", "g", "i", "n">>, <<"/", "s", "u", "b", "s", "c", "r", "i", "b", "e">>>>, <<<<"/", "d", "e", "f", "a", "u", "l", "t">>>>, <<<<"/", "m", "i", "s", "s", "i", "n", "g">>>>,
      <<<<"/", "s", "u", "b", "s", "c", "r", "i", "b", "e">>, <<"/", "d", "e", "f", "a", "u", "l", "t">>>> }

PageActions ==
    { [exported |-> FALSE, names |-> {}],
      [exported |-> TRUE, names |-> {<<"d", "e", "f", "a", "u", "l", "t">>}],
      [exported |-> TRUE, names |-> {<<"s", "u", "b", "s", "c", "r", "i", "b", "e">>}],
      [exported |-> TRUE, names |-> {<<"s", "u", "b", "s", "c", "r", "i", "b", "e">>, <<"l", "o", "g", "i", "n">>}],
      [exported |-> TRUE, names |-> {<<"d", "e", "f", "a", "u", "l", "t">>, <<"s", "u", "b", "s", "c", "r", "i", "b", "e">>}] }

\* what the invoked action does: it returns data, nothing, an empty object,
\* a value that does not serialize or a failure marker, or it throws a
\* redirect, an error, an HttpError or a failure marker
Behaviours ==
    { ActionRun("return", 0, UserData, NoError),
      ActionRun("return", 0, Null, NoError),
      ActionRun("return", 0, Object(<<>>), NoError),
      ActionRun("return", 0, Unserializable, NoError),
      ActionRun("fail", 422, ReasonInvalid, NoError),
      ActionRun("throw", 0, Null, Redirect(303, <<"/", "d", "o", "n", "e">>)),
      ActionRun("throw", 0, Null, PlainError(<<"b", "o", "o", "m">>)),
      ActionRun("throw", 0, Null, error(403, <<"n", "o">>)),
      ActionRun("throw", 0, Null, ThrownFailure(400)) }

\* ---- states
ActionIdle ==
    /\ act_accept = <<>>
    /\ act_content_type = <<>>
    /\ act_query = <<>>
    /\ act_actions = [exported |-> FALSE, names |-> {}]
    /\ act_behaviour = NotRun
    /\ act_invoked = <<>>
    /\ act_run = NotRun
    /\ act_result = NoActionResult
    /\ act_response = NoResponse
    /\ act_reported = NoError
    /\ act_pc = "idle"

\* a POST to a page route enters render_page
ActionInit ==
    /\ act_accept \in ActionAcceptHeaders
    /\ act_content_type \in ContentTypes
    /\ act_query \in Queries
    /\ act_actions \in PageActions
    /\ act_behaviour \in Behaviours
    /\ act_invoked = <<>>
    /\ act_run = NotRun
    /\ act_result = NoActionResult
    /\ act_response = NoResponse
    /\ act_reported = NoError
    /\ act_pc = "start"

\* the request as is_action_json_request reads it
ActionRequest == [method |-> "POST", accept |-> AcceptOr(act_accept, AcceptPart("*", "*", 10, 0))]

\* ---- actions
\* render_page: handle_action_json_request for a JSON action request; what it
\* throws is caught by resolve and answered by handle_fatal_error, which reads
\* the Accept header again (|| 'text/html')
JsonActionRequest ==
    /\ act_pc = "start"
    /\ is_action_json_request(ActionRequest)
    /\ LET called == RunOf(act_actions, act_query, act_content_type, act_behaviour)
           outcome == handle_action_json_request(called.run)
           fatal == [method |-> "POST",
                     accept |-> AcceptOr(act_accept, AcceptPart("text", "html", 10, 0))]
       IN  /\ act_invoked' = called.invoked
           /\ act_run' = called.run
           /\ act_response' = IF outcome.threw
                              THEN handle_fatal_error(fatal, outcome.error)
                              ELSE outcome.response
           /\ act_reported' = IF outcome.threw THEN Reported(outcome.error)
                              ELSE outcome.reported
    /\ act_pc' = "done"
    /\ UNCHANGED <<act_accept, act_content_type, act_query, act_actions,
                   act_behaviour, act_result>>
    /\ UNCHANGED notActionVars

\* render_page: action_result = await handle_action_request(...)
PageActionRequest ==
    /\ act_pc = "start"
    /\ ~is_action_json_request(ActionRequest)
    /\ LET called == RunOf(act_actions, act_query, act_content_type, act_behaviour)
       IN  /\ act_invoked' = called.invoked
           /\ act_run' = called.run
           /\ act_result' = handle_action_request(called.run)
    /\ act_pc' = "done"
    /\ UNCHANGED <<act_accept, act_content_type, act_query, act_actions,
                   act_behaviour, act_response, act_reported>>
    /\ UNCHANGED notActionVars

ActionNext == JsonActionRequest \/ PageActionRequest

\* ---- claims about form actions
\* the request was answered by the JSON responder
JsonActionDone == act_pc = "done" /\ is_action_json_request(ActionRequest)

\* the request went on as a page action request
PageActionDone == act_pc = "done" /\ ~is_action_json_request(ActionRequest)

EnvelopeTypes == {"success", "failure", "redirect", "error"}

\* C16: every POST that asks for JSON is answered with a JSON body that is an
\* action envelope with a type tag among success, failure, redirect, error.
C16_AlwaysTaggedEnvelope ==
    JsonActionDone =>
        /\ act_response.body.type = "json"
        /\ act_response.body.value.type \in EnvelopeTypes

\* C16: a page with a default action next to a named one answers the POST
\* with the bare error body of handle_fatal_error, which has no type tag
C16_Divergence ==
    /\ JsonActionDone
    /\ act_run.outcome = "mixed"
    /\ act_response.status = 500
    /\ act_response.body.type = "json"
    /\ act_response.body.value.type \notin EnvelopeTypes

\* the positions of the query keys that begin with a slash
SlashKeys == {k \in DOMAIN act_query : Head(act_query[k]) = "/"}

\* the name the query asks for: the text after the slash of the first such key
AskedName ==
    IF SlashKeys = {} THEN <<"d", "e", "f", "a", "u", "l", "t">>
    ELSE Tail(act_query[CHOOSE k \in SlashKeys : \A l \in SlashKeys : k <= l])

\* call_action was reached
CallActionReached ==
    /\ act_pc = "done"
    /\ act_actions.exported
    /\ ~check_named_default_separate(act_actions.names)

\* C17: call_action invokes no action but the one named by the first query
\* key that begins with a slash (the text after the slash), or `default` when
\* there is no such key; it invokes it whenever it exists and the body is a
\* form; an explicit /default is rejected with an error and nothing is invoked.
C17_FirstSlashKeySelects ==
    CallActionReached =>
        /\ act_invoked \in {<<>>, <<AskedName>>}
        /\ (SlashKeys # {} /\ AskedName = <<"d", "e", "f", "a", "u", "l", "t">>)
               => act_invoked = <<>> /\ act_run.error = ReservedNameError
        /\ (/\ ~(SlashKeys # {} /\ AskedName = <<"d", "e", "f", "a", "u", "l", "t">>)
            /\ AskedName \in act_actions.names
            /\ is_form_content_type(act_content_type))
               => act_invoked = <<AskedName>> /\ act_run = act_behaviour

\* C17: of two keys that begin with a slash the first one named the action
C17_Witness ==
    /\ act_pc = "done"
    /\ act_query = <<<<"/", "l", "o", "g", "i", "n">>, <<"/", "s", "u", "b", "s", "c", "r", "i", "b", "e">>>>
    /\ act_invoked = <<<<"l", "o", "g", "i", "n">>>>

\* C17: /default is rejected although the page has a default action
C17_ReservedRejected ==
    /\ act_pc = "done"
    /\ act_query = <<<<"/", "d", "e", "f", "a", "u", "l", "t">>>>
    /\ <<"d", "e", "f", "a", "u", "l", "t">> \in act_actions.names
    /\ act_invoked = <<>>
    /\ act_run.error = ReservedNameError

\* the invoked action returned a value that is no failure marker
ActionReturned == act_invoked # <<>> /\ act_run.outcome = "return"

\* C18 as stated: in both paths the success outcome has status 200 when data
\* is present and 204 when the action returned nothing.
C18_SuccessStatusByData ==
    /\ (JsonActionDone /\ ActionReturned /\ act_run.data # Unserializable)
           => /\ act_response.body.value.type = "success"
              /\ act_response.body.value.status
                     = IF act_run.data = Null THEN 204 ELSE 200
    /\ (PageActionDone /\ ActionReturned)
           => /\ act_result.type = "success"
              /\ act_result.status = IF act_run.data = Null THEN 204 ELSE 200

\* C18: the JSON responder's success envelope has status 204 when the action
\* returned nothing and 200 otherwise (an empty object included), in a
\* response of HTTP status 200; the page path's success outcome has status
\* 200 whatever was returned.
C18_SuccessStatusPerPath ==
    /\ (JsonActionDone /\ ActionReturned /\ act_run.data # Unserializable)
           => /\ act_response.status = 200
              /\ act_response.body.value.type = "success"
              /\ act_response.body.value.status
                     = IF act_run.data = Null THEN 204 ELSE 200
    /\ (PageActionDone /\ ActionReturned)
           => /\ act_result.type = "success"
              /\ act_result.status = 200
              /\ act_result.data = act_run.data

\* C18: a page action returned nothing and its outcome has status 200
C18_Witness ==
    /\ PageActionDone
    /\ ActionReturned
    /\ act_run.data = Null
    /\ act_result.type = "success"
    /\ act_result.status = 200

\* C18: the JSON responder gave status 204 for an action that returned nothing
C18_JsonNoContent ==
    /\ JsonActionDone
    /\ ActionReturned
    /\ act_run.data = Null
    /\ act_response.body.value.status = 204

\* the invoked action threw a failure marker
FailureThrown == act_invoked # <<>> /\ act_run.error.name = "ActionFailure"

\* C19: a failure marker that is thrown never gives a failure outcome: the
\* outcome is an error outcome for the corrective error, its status is 500,
\* and neither the marker's status nor its data is in what the client gets.
C19_ThrownFailureIsError ==
    /\ (PageActionDone /\ FailureThrown)
           => /\ act_result.type = "error"
              /\ act_result.error = IncorrectFailUse
              /\ ErrorStatus(act_result.error) = 500
              /\ act_result.status # act_run.error.status
              /\ act_result.data = Null
    /\ (JsonActionDone /\ FailureThrown)
           => /\ act_response.status = 500
              /\ act_response.body.value.type = "error"
              /\ act_reported = IncorrectFailUse
              /\ act_response.body.value.status # act_run.error.status
              /\ act_response.body.value.data = <<>>

\* C19: an action threw fail(400) at a JSON action request
C19_Witness ==
    /\ JsonActionDone
    /\ FailureThrown
    /\ act_run.error.status = 400
    /\ act_response.status = 500
    /\ act_reported = IncorrectFailUse

\* C19: an action threw fail(400) at a page action request
C19_PageWitness ==
    /\ PageActionDone
    /\ FailureThrown
    /\ act_result.error = IncorrectFailUse

(***************************************************************************)
(* Nested respond calls: create_fetch, MAX_DEPTH                           *)
(***************************************************************************)
\* const MAX_DEPTH = 10
MAX_DEPTH == 10

\* the respond calls followed at once, one inside the other
MaxNesting == 13

\* what a sub-request asks for: the page of a route, the route's __data.json,
\* or a +server endpoint
FetchRoutes == {"page", "data", "endpoint"}

FetchTargets == FetchRoutes \cup {"none"}

\* one respond call: the kind of route it resolves to, its state.depth,
\* whether a load or handler ran in it, and the status it returned (0 before)
Frame(route_kind, depth, ran, frame_status) ==
    [route |-> route_kind, depth |-> depth, ran |-> ran, status |-> frame_status]

NoFrame == Frame("none", 0, FALSE, 0)

\* respond(request, options, manifest, { ...state, depth: state.depth + 1 })
\* as create_fetch calls it for a same-origin request from the call `caller`
create_fetch(caller, target) == Frame(target, caller.depth + 1, FALSE, 0)

\* the innermost respond call
Top == stack[Len(stack)]

FetchIdle ==
    /\ load_fetches = "none"
    /\ handler_fetches = "none"
    /\ stack = <<>>
    /\ finished = NoFrame
    /\ fetch_pc = "idle"

\* Server.respond: respond(request, options, manifest, { ...options, depth: 0 })
FetchInit ==
    /\ load_fetches \in FetchTargets
    /\ handler_fetches \in FetchTargets
    /\ \E r \in FetchRoutes : stack = <<Frame(r, 0, FALSE, 0)>>
    /\ finished = NoFrame
    /\ fetch_pc = "running"

\* the innermost call returns a Response of the given status
Returns(ran, response_status) ==
    /\ finished' = [Top EXCEPT !.ran = ran, !.status = response_status]
    /\ stack' = SubSeq(stack, 1, Len(stack) - 1)
    /\ fetch_pc' = IF Len(stack) = 1 THEN "done" ELSE "running"
    /\ UNCHANGED <<load_fetches, handler_fetches>>
    /\ UNCHANGED notFetchVars

\* the innermost call runs the route's code, which fetches `target` through
\* event.fetch and awaits the response, or fetches nothing and returns
RunsAndFetches(target) ==
    IF target = "none" THEN Returns(TRUE, 200)
    ELSE /\ Len(stack) < MaxNesting
         /\ stack' = [stack EXCEPT ![Len(stack)].ran = TRUE]
                         \o <<create_fetch(Top, target)>>
         /\ UNCHANGED <<load_fetches, handler_fetches, finished, fetch_pc>>
         /\ UNCHANGED notFetchVars

\* render_page: if (state.depth > MAX_DEPTH) return text('Not found', 404)
RenderPageTooDeep ==
    /\ fetch_pc = "running"
    /\ Top.route = "page" /\ ~Top.ran
    /\ Top.depth > MAX_DEPTH
    /\ Returns(FALSE, 404)

\* render_page below the limit: the page's load runs
RenderPage ==
    /\ fetch_pc = "running"
    /\ Top.route = "page" /\ ~Top.ran
    /\ ~(Top.depth > MAX_DEPTH)
    /\ RunsAndFetches(load_fetches)

\* render_data: the load runs, whatever the depth
RenderData ==
    /\ fetch_pc = "running"
    /\ Top.route = "data" /\ ~Top.ran
    /\ RunsAndFetches(load_fetches)

\* render_endpoint: the handler runs, whatever the depth
RenderEndpoint ==
    /\ fetch_pc = "running"
    /\ Top.route = "endpoint" /\ ~Top.ran
    /\ RunsAndFetches(handler_fetches)

\* the awaited sub-request has returned: the load or handler goes on and the
\* call it runs in returns its response
FetchReturned ==
    /\ fetch_pc = "running"
    /\ Top.ran
    /\ Returns(TRUE, 200)

FetchNext ==
    \/ RenderPageTooDeep
    \/ RenderPage
    \/ RenderData
    \/ RenderEndpoint
    \/ FetchReturned

\* ---- claims about nested requests
\* only loads are involved: no call in progress is for an endpoint
OnlyLoads == \A k \in DOMAIN stack : stack[k].route # "endpoint"

\* C20: every sub-fetch runs respond one deeper than its caller; a page
\* request deeper than MAX_DEPTH returns 404 and runs no load; so a load that
\* fetches routes of the app never has more than MAX_DEPTH + 2 respond calls
\* nested and never runs deeper than MAX_DEPTH.
C20_SelfFetchBounded ==
    /\ \A k \in 2..Len(stack) : stack[k].depth = stack[k - 1].depth + 1
    /\ (finished.route = "page" /\ finished.depth > MAX_DEPTH)
           => finished.status = 404 /\ ~finished.ran
    /\ OnlyLoads
           => /\ Len(stack) <= MAX_DEPTH + 2
              /\ \A k \in DOMAIN stack : stack[k].ran => stack[k].depth <= MAX_DEPTH

\* C20: a load that fetches its own route's __data.json has run deeper than
\* MAX_DEPTH and has fetched again
C20_Divergence ==
    /\ load_fetches = "data"
    /\ OnlyLoads
    /\ Len(stack) > MAX_DEPTH + 2
    /\ \E k \in DOMAIN stack :
          /\ stack[k].route = "data"
          /\ stack[k].depth > MAX_DEPTH
          /\ stack[k].ran

\* C20 for page routes alone: a load that fetches its own page stops at the
\* 404 of the call at depth MAX_DEPTH + 1
C20_PageSelfFetchBounded ==
    (load_fetches = "page" /\ stack # <<>> /\ stack[1].route = "page")
        => /\ Len(stack) <= MAX_DEPTH + 2
           /\ \A k \in DOMAIN stack : stack[k].ran => stack[k].depth <= MAX_DEPTH

\* C20 for page routes alone: the call at depth MAX_DEPTH + 1 returned 404
C20_PageCutOff ==
    /\ load_fetches = "page"
    /\ finished.route = "page"
    /\ finished.depth = MAX_DEPTH + 1
    /\ finished.status = 404
    /\ ~finished.ran

(***************************************************************************)
(* respond before the handle hook: the cross-site form check and the       *)
(* trailing-slash redirect                                                 *)
(***************************************************************************)
\* paths.base of the build (the import `b as base`): the default, ''
base == <<>>

\* url.origin of the request URL
UrlOrigin == <<"h", "t", "t", "p", "s", ":", "/", "/", "a", ".", "d", "e", "v">>

\* json(data, init) without init.headers: the body is kept as the value
\* json stringifies
json(value, response_status) ==
    Response(response_status,
             SetHeader(NoHeaders, "content-type", <<"a", "p", "p", "l", "i", "c", "a", "t", "i", "o", "n", "/", "j", "s", "o", "n">>),
             JsonBody(value))

\* error(403, `Cross-site ${request.method} form submissions are forbidden`)
csrf_error == error(403, <<"C", "r", "o", "s", "s", "-", "s", "i", "t", "e", " ", "f", "o", "r", "m", " ", "s", "u", "b", "m", "i", "s", "s", "i", "o", "n", "s", " ", "a", "r", "e", " ", "f", "o", "r", "b", "i", "d", "d", "e", "n">>)

\* the check for POST alone: a variant of `forbidden` that leaves out PUT,
\* PATCH and DELETE
forbidden_post_only(method, content_type, origin) ==
    /\ is_form_content_type(content_type)
    /\ method = "POST"
    /\ origin # UrlOrigin

\* const forbidden = is_form_content_type(request) && (...) && origin !== url.origin
forbidden(method, content_type, origin) ==
    /\ is_form_content_type(content_type)
    /\ method \in {"POST", "PUT", "PATCH", "DELETE"}
    /\ origin # UrlOrigin

\* the response to a forbidden request
csrf_response(accept) ==
    IF accept = <<"a", "p", "p", "l", "i", "c", "a", "t", "i", "o", "n", "/", "j", "s", "o", "n">>
    THEN json(ErrorBody([message |-> csrf_error.message]), csrf_error.status)
    ELSE text(csrf_error.message, csrf_error.status, NoHeaders)

\* trailing_slash as respond determines it for a matched route; "undefined"
\* when no node sets the option
RouteTrailingSlash(p, matched_route) ==
    IF p = base \/ p = base \o <<"/">> THEN "always" ELSE matched_route.trailingSlash

\* trailing_slash ?? 'never'
OrNever(ts) == IF ts = "undefined" THEN "never" ELSE ts

\* the location kept relative whatever the path: a variant of
\* normalize_location without the guard against protocol-relative paths
normalize_location_relative(normalized, search) == normalized \o search

\* (normalized.startsWith('//') ? url.origin + normalized : normalized)
\*     + (url.search === '?' ? '' : url.search)
normalize_location(normalized, search) ==
    (IF StartsWith(normalized, <<"/", "/">>) THEN UrlOrigin \o normalized ELSE normalized)
        \o (IF search = <<"?">> THEN <<>> ELSE search)

\* the 308 of respond
normalize_response(normalized, search) ==
    Response(308,
             SetHeader(SetHeader(NoHeaders, "x-sveltekit-normalize", <<"1">>),
                       "location", normalize_location(normalized, search)),
             EmptyBody)

\* ---- inputs
RequestMethods == {"GET", "POST", "PUT", "PATCH", "DELETE"}

RequestContentTypes ==
    { <<>>, <<"a", "p", "p", "l", "i", "c", "a", "t", "i", "o", "n", "/", "x", "-", "w", "w", "w", "-", "f", "o", "r", "m", "-", "u", "r", "l", "e", "n", "c", "o", "d", "e", "d">>,
      <<"M", "u", "l", "t", "i", "p", "a", "r", "t", "/", "F", "o", "r", "m", "-", "D", "a", "t", "a", ";", " ", "b", "o", "u", "n", "d", "a", "r", "y", "=", "x">>, <<"t", "e", "x", "t", "/", "p", "l", "a", "i", "n", " ", ";", "c", "h", "a", "r", "s", "e", "t", "=", "u", "t", "f", "-", "8">>,
      <<"a", "p", "p", "l", "i", "c", "a", "t", "i", "o", "n", "/", "j", "s", "o", "n">> }

RequestOrigins == { <<>>, UrlOrigin, <<"h", "t", "t", "p", "s", ":", "/", "/", "b", ".", "d", "e", "v">> }

RequestAccepts == { <<>>, <<"a", "p", "p", "l", "i", "c", "a", "t", "i", "o", "n", "/", "j", "s", "o", "n">>, <<"t", "e", "x", "t", "/", "h", "t", "m", "l">> }

RequestPaths ==
    { <<"/">>, <<"/", "a">>, <<"/", "a", "/">>, <<"/", "/", "a">>, <<"/", "/", "a", "/">>, <<"/", "a", "/", "_", "_", "d", "a", "t", "a", ".", "j", "s", "o", "n">>,
      <<"/", "_", "_", "d", "a", "t", "a", ".", "j", "s", "o", "n">> }

RequestSearches == { <<>>, <<"?", "x", "=", "1">> }

\* no route matches, or one does and its nodes set trailingSlash or not
NoRoute == [matched |-> FALSE, trailingSlash |-> "undefined"]

MatchedRoutes ==
    { [matched |-> TRUE, trailingSlash |-> ts] :
          ts \in TrailingSlashPolicies \cup {"undefined"} }

\* ---- states
RespondIdle ==
    /\ rq_check_origin = FALSE
    /\ rq_method = "GET"
    /\ rq_content_type = <<>>
    /\ rq_origin = <<>>
    /\ rq_accept = <<>>
    /\ rq_pathname = <<>>
    /\ rq_search = <<>>
    /\ rq_route = NoRoute
    /\ rq_response = NoResponse
    /\ rq_handle_called = FALSE
    /\ rq_pc = "idle"

RespondInit ==
    /\ rq_check_origin \in BOOLEAN
    /\ rq_method \in RequestMethods
    /\ rq_content_type \in RequestContentTypes
    /\ rq_origin \in RequestOrigins
    /\ rq_accept \in RequestAccepts
    /\ rq_pathname \in RequestPaths
    /\ rq_search \in RequestSearches
    /\ rq_route \in MatchedRoutes \cup {NoRoute}
    /\ rq_response = NoResponse
    /\ rq_handle_called = FALSE
    /\ rq_pc = "start"

RespondInputsUnchanged ==
    UNCHANGED <<rq_check_origin, rq_method, rq_content_type, rq_origin, rq_accept,
                rq_pathname, rq_search, rq_route>>

\* the request is a cross-site form submission
IsForbidden ==
    rq_check_origin /\ forbidden(rq_method, rq_content_type, rq_origin)

\* the pathname of a matched route's page request is not in its normal form
NeedsNormalizing ==
    /\ rq_route.matched
    /\ ~has_data_suffix(rq_pathname)
    /\ normalize_path(rq_pathname,
                      OrNever(RouteTrailingSlash(rq_pathname, rq_route)))
           # rq_pathname

\* ---- actions
\* respond returns the 403
RespondForbidden ==
    /\ rq_pc = "start"
    /\ IsForbidden
    /\ rq_response' = csrf_response(rq_accept)
    /\ rq_pc' = "done"
    /\ RespondInputsUnchanged
    /\ UNCHANGED rq_handle_called
    /\ UNCHANGED notRespondVars

\* respond returns the 308
RespondNormalizes ==
    /\ rq_pc = "start"
    /\ ~IsForbidden
    /\ NeedsNormalizing
    /\ rq_response' =
           normalize_response(
               normalize_path(rq_pathname,
                              OrNever(RouteTrailingSlash(rq_pathname, rq_route))),
               rq_search)
    /\ rq_pc' = "done"
    /\ RespondInputsUnchanged
    /\ UNCHANGED rq_handle_called
    /\ UNCHANGED notRespondVars

\* respond goes on to options.hooks.handle({ event, resolve })
RespondCallsHandle ==
    /\ rq_pc = "start"
    /\ ~IsForbidden
    /\ ~NeedsNormalizing
    /\ rq_handle_called' = TRUE
    /\ rq_pc' = "done"
    /\ RespondInputsUnchanged
    /\ UNCHANGED rq_response
    /\ UNCHANGED notRespondVars

RespondNext == RespondForbidden \/ RespondNormalizes \/ RespondCallsHandle

\* ---- claims about respond before the handle hook
\* the Content-Type headers of the inputs that name a form media type
FormContentTypes ==
    { <<"a", "p", "p", "l", "i", "c", "a", "t", "i", "o", "n", "/", "x", "-", "w", "w", "w", "-", "f", "o", "r", "m", "-", "u", "r", "l", "e", "n", "c", "o", "d", "e", "d">>, <<"M", "u", "l", "t", "i", "p", "a", "r", "t", "/", "F", "o", "r", "m", "-", "D", "a", "t", "a", ";", " ", "b", "o", "u", "n", "d", "a", "r", "y", "=", "x">>,
      <<"t", "e", "x", "t", "/", "p", "l", "a", "i", "n", " ", ";", "c", "h", "a", "r", "s", "e", "t", "=", "u", "t", "f", "-", "8">> }

\* a state-changing form submission from another origin, protection enabled
CrossSiteForm ==
    /\ rq_check_origin
    /\ rq_method \in {"POST", "PUT", "PATCH", "DELETE"}
    /\ rq_content_type \in FormContentTypes
    /\ rq_origin # UrlOrigin

\* C21: with the protection enabled, a POST, PUT, PATCH or DELETE with a form
\* content type whose Origin differs from the URL's origin is answered with
\* 403 and the handle hook (and so every action, handler and load) never runs.
C21_CrossSiteFormForbidden ==
    (rq_pc = "done" /\ CrossSiteForm)
        => /\ rq_response.status = 403
           /\ ~rq_handle_called

\* C21: a DELETE with a multipart body from another origin got the 403
C21_Witness ==
    /\ rq_pc = "done"
    /\ CrossSiteForm
    /\ rq_method = "DELETE"
    /\ rq_content_type = <<"M", "u", "l", "t", "i", "p", "a", "r", "t", "/", "F", "o", "r", "m", "-", "D", "a", "t", "a", ";", " ", "b", "o", "u", "n", "d", "a", "r", "y", "=", "x">>
    /\ rq_origin = <<"h", "t", "t", "p", "s", ":", "/", "/", "b", ".", "d", "e", "v">>
    /\ rq_response.status = 403
    /\ ~rq_handle_called

\* the pathname normalized under the route's policy, 'never' by default
NormalizedPathname == normalize_path(rq_pathname, OrNever(rq_route.trailingSlash))

\* a request for a matched route that is no data request
MatchedPageRequest == rq_route.matched /\ ~has_data_suffix(rq_pathname)

\* the response is the 308 with the marker header
IsNormalizeRedirect ==
    /\ rq_response.status = 308
    /\ "x-sveltekit-normalize" \in DOMAIN rq_response.headers
    /\ rq_response.headers["x-sveltekit-normalize"] = <<"1">>
    /\ "location" \in DOMAIN rq_response.headers

\* C22 as stated: a request for a matched route, not a data request, whose
\* pathname differs from its normalization gets the 308 with the marker and
\* the normalized path plus the query as location, and the handle hook does
\* not run; an already normalized pathname never gets the 308.
C22_NormalizeRedirect ==
    rq_pc = "done" =>
        /\ (MatchedPageRequest /\ NormalizedPathname # rq_pathname)
               => /\ IsNormalizeRedirect
                  /\ rq_response.headers["location"] = NormalizedPathname \o rq_search
                  /\ ~rq_handle_called
        /\ (NormalizedPathname = rq_pathname) => rq_response.status # 308

\* C22: the same for requests the cross-site form check lets through, with
\* the location made absolute (url.origin in front) when the normalized path
\* begins with two slashes.
C22_NormalizeRedirectUnlessForbidden ==
    rq_pc = "done" =>
        /\ (MatchedPageRequest /\ NormalizedPathname # rq_pathname /\ ~IsForbidden)
               => /\ IsNormalizeRedirect
                  /\ rq_response.headers["location"]
                         = (IF StartsWith(NormalizedPathname, <<"/", "/">>)
                            THEN UrlOrigin ELSE <<>>)
                               \o NormalizedPathname \o rq_search
                  /\ ~rq_handle_called
        /\ (MatchedPageRequest /\ NormalizedPathname # rq_pathname /\ IsForbidden)
               => rq_response.status = 403
        /\ (NormalizedPathname = rq_pathname) => rq_response.status # 308

\* C22: a path that begins with two slashes was redirected to an absolute URL
C22_Witness ==
    /\ rq_pc = "done"
    /\ rq_pathname = <<"/", "/", "a", "/">>
    /\ rq_search = <<"?", "x", "=", "1">>
    /\ IsNormalizeRedirect
    /\ rq_response.headers["location"] = <<"h", "t", "t", "p", "s", ":", "/", "/", "a", ".", "d", "e", "v", "/", "/", "a", "?", "x", "=", "1">>
    /\ ~rq_handle_called

\* C22: /a/ was redirected to /a
C22_PlainRedirect ==
    /\ rq_pc = "done"
    /\ rq_pathname = <<"/", "a", "/">>
    /\ IsNormalizeRedirect
    /\ rq_response.headers["location"] = <<"/", "a">>

(***************************************************************************)
(* Errors on their way to the client: handle_error_and_jsonify,            *)
(* handle_fatal_error                                                      *)
(***************************************************************************)
\* ---- inputs
\* unexpected errors with messages of their own, and expected HttpErrors
ThrownErrors ==
    { PlainError(<<"b", "o", "o", "m">>), PlainError(<<"d", "b", " ", "p", "a", "s", "s", "w", "o", "r", "d", " ", "i", "s", " ", "x">>),
      error(403, <<"n", "o">>), error(404, <<"g", "o", "n", "e">>) }

\* the default hook, and a hook of the application that returns a message
HandleErrorHooks == { HookReturnsNothing, HookReturns([message |-> <<"O", "o", "p", "s">>]) }

NoBody == [message |-> <<>>]

\* ---- states
ErrorIdle ==
    /\ er_error = NoError
    /\ er_hook = HookReturnsNothing
    /\ er_route_matched = FALSE
    /\ er_accept = <<>>
    /\ er_is_data = FALSE
    /\ er_hook_called = NoError
    /\ er_body = NoBody
    /\ er_response = NoResponse
    /\ er_pc = "idle"

ErrorInit ==
    /\ er_error \in ThrownErrors
    /\ er_hook \in HandleErrorHooks
    /\ er_route_matched \in BOOLEAN
    /\ er_accept \in ActionAcceptHeaders
    /\ er_is_data \in BOOLEAN
    /\ er_hook_called = NoError
    /\ er_body = NoBody
    /\ er_response = NoResponse
    /\ er_pc = "start"

ErrorInputsUnchanged ==
    UNCHANGED <<er_error, er_hook, er_route_matched, er_accept, er_is_data>>

\* ---- actions
\* handle_error_and_jsonify(event, options, error) for an error that is
\* rendered or serialized by its caller
HandleErrorAndJsonify ==
    /\ er_pc = "start"
    /\ er_hook_called' = Reported(er_error)
    /\ er_body' = jsonify_error(er_route_matched, er_hook, er_error)
    /\ er_pc' = "jsonified"
    /\ ErrorInputsUnchanged
    /\ UNCHANGED er_response
    /\ UNCHANGED notErrorVars

\* handle_fatal_error(event, options, error)
HandleFatalError ==
    /\ er_pc = "start"
    /\ er_hook_called' = Reported(er_error)
    /\ er_body' = jsonify_error(er_route_matched, er_hook, er_error)
    /\ er_response' =
           fatal_error_response(AcceptOr(er_accept, AcceptPart("text", "html", 10, 0)),
                                er_is_data, ErrorStatus(er_error),
                                jsonify_error(er_route_matched, er_hook, er_error))
    /\ er_pc' = "responded"
    /\ ErrorInputsUnchanged
    /\ UNCHANGED notErrorVars

ErrorNext == HandleErrorAndJsonify \/ HandleFatalError

\* ---- claims about error bodies
\* the message the client is given: in the JSON body, or in the static page
\* after the status
ResponseMessageIs(message) ==
    IF er_response.body.type = "json"
    THEN er_response.body.value.error = [message |-> message]
    ELSE er_response.body.text
             = NumberToString(er_response.status) \o <<" ">> \o message

\* C23: for an unexpected error the hook is called and the body is what it
\* returns, or { message: 'Internal Error' } on a matched route and
\* { message: 'Not Found' } otherwise when it returns nothing, never the
\* error's own message; an HttpError's body is sent as it is and the hook is
\* not called.
C23_PublicErrorBody ==
    er_pc \in {"jsonified", "responded"} =>
        LET expected ==
                IF er_error.name = "HttpError" THEN er_error.message
                ELSE IF er_hook.returned THEN er_hook.body.message
                ELSE IF er_route_matched THEN <<"I", "n", "t", "e", "r", "n", "a", "l", " ", "E", "r", "r", "o", "r">>
                ELSE <<"N", "o", "t", " ", "F", "o", "u", "n", "d">>
        IN  /\ er_body = [message |-> expected]
            /\ er_pc = "responded" => ResponseMessageIs(expected)
            /\ er_hook_called = IF er_error.name = "HttpError" THEN NoError
                                ELSE er_error
            /\ (er_error.name # "HttpError" /\ ~er_hook.returned)
                   => /\ er_body.message # er_error.message
                      /\ er_pc = "responded" => ~ResponseMessageIs(er_error.message)

\* C23: an unexpected error on an unmatched route, default hook: 'Not Found'
C23_Witness ==
    /\ er_pc = "responded"
    /\ er_error = PlainError(<<"d", "b", " ", "p", "a", "s", "s", "w", "o", "r", "d", " ", "i", "s", " ", "x">>)
    /\ ~er_hook.returned
    /\ ~er_route_matched
    /\ er_hook_called = er_error
    /\ er_body = [message |-> <<"N", "o", "t", " ", "F", "o", "u", "n", "d">>]
    /\ er_response.status = 500

\* C23: an HttpError went out as it is
C23_ExpectedError ==
    /\ er_pc = "responded"
    /\ er_error = error(403, <<"n", "o">>)
    /\ er_hook_called = NoError
    /\ er_body = [message |-> <<"n", "o">>]
    /\ er_response.status = 403

(***************************************************************************)
(* devalue: the paths of the errors of uneval.walk and stringify.flatten   *)
(***************************************************************************)
\* the entries a container of the inputs has at most
MaxEntries == 2

\* ---- values: [type, entries]; a container's entries are [key, value] in
\* order (an array's keys are not used, its indexes are)
Leaf(type) == [type |-> type, entries |-> <<>>]

\* a string, a function, an instance of a class, a plain object with a
\* symbol-keyed property
Leaves == {Leaf("string"), Leaf("function"), Leaf("instance"), Leaf("symbolic")}

ContainerTypes == {"object", "array", "map"}

EntryKeys == <<<<"a">>, <<"b">>, <<"c">>>>

\* lists of values, the first from `first` and the others from `others`
ValueLists(first, others) ==
    UNION { {v \in [1..m -> first \cup others] :
                 /\ v[1] \in first
                 /\ \A k \in 2..m : v[k] \in others} : m \in 1..MaxEntries }

ContainersOf(first, others) ==
    { [type |-> t,
       entries |-> [k \in DOMAIN values |->
                       [key |-> EntryKeys[k], value |-> values[k]]]] :
          t \in ContainerTypes, values \in ValueLists(first, others) }

\* values of depth one and two
Shallow == Leaves \cup ContainersOf(Leaves, Leaves)

LoadResults == Shallow \cup ContainersOf(Shallow, Leaves)

\* ---- DevalueError
\* new DevalueError(message, keys): path = keys.join('')
DevalueError(message, keys) ==
    [threw |-> TRUE, message |-> message, path |-> JoinWith(keys, <<>>),
     keys |-> keys]

\* the call returned, leaving the stack `keys`
Walked(keys) == [threw |-> FALSE, message |-> "", path |-> <<>>, keys |-> keys]

NotThrown == Walked(<<>>)

\* keys.pop()
Pop(keys) == IF keys = <<>> THEN keys ELSE SubSeq(keys, 1, Len(keys) - 1)

\* what is pushed for the k-th entry of a container: `[${i}]`,
\* `.get(${stringify_primitive(key)})` for a string key, or `.${key}`
Accessor(type, entry, k) ==
    CASE type = "array" -> <<"[">> \o NumberToString(k - 1) \o <<"]">>
      [] type = "map" -> <<".", "g", "e", "t", "(", "\"">> \o entry.key \o <<"\"", ")">>
      [] OTHER -> <<".">> \o entry.key

\* the walk of a value with the stack `keys`; pops_map_key says whether the
\* Map branch pops the accessor after each entry (uneval.walk does,
\* stringify.flatten does not)
RECURSIVE Visit(_, _, _), VisitEntries(_, _, _, _, _)
Visit(thing, keys, pops_map_key) ==
    IF thing.type = "function"
    THEN DevalueError("Cannot stringify a function", keys)
    ELSE IF thing.type = "string" THEN Walked(keys)
    ELSE IF thing.type = "instance"
    THEN DevalueError("Cannot stringify arbitrary non-POJOs", keys)
    ELSE IF thing.type = "symbolic"
    THEN DevalueError("Cannot stringify POJOs with symbolic keys", keys)
    ELSE VisitEntries(thing.type, thing.entries, 1, keys, pops_map_key)

VisitEntries(type, entries, k, keys, pops_map_key) ==
    IF k > Len(entries) THEN Walked(keys)
    ELSE LET inner == Visit(entries[k].value,
                            Append(keys, Accessor(type, entries[k], k)),
                            pops_map_key)
         IN  IF inner.threw THEN inner
             ELSE VisitEntries(type, entries, k + 1,
                               IF type = "map" /\ ~pops_map_key THEN inner.keys
                               ELSE Pop(inner.keys),
                               pops_map_key)

\* uneval(value, replacer): walk(value) with keys = []
walk(value) == Visit(value, <<>>, TRUE)

\* stringify(value, reducers): flatten(value) with keys = []
flatten(value) == Visit(value, <<>>, FALSE)

\* the route the request is for
RouteId == <<"/", "b", "l", "o", "g">>

\* what clarify_devalue_error says about a DevalueError: [route, message,
\* path], the path after `data`; for the root itself another sentence, with
\* neither the message nor a path
clarify_devalue_error(err) ==
    IF err.path # <<>>
    THEN [route |-> RouteId, message |-> err.message, path |-> err.path]
    ELSE [route |-> RouteId, message |-> "is not a plain object", path |-> <<>>]

NoReport == [route |-> <<>>, message |-> "", path |-> <<>>]

\* ---- states
DevalueIdle ==
    /\ dv_encoder = "none"
    /\ dv_value = Leaf("string")
    /\ dv_thrown = NotThrown
    /\ dv_report = NoReport
    /\ dv_pc = "idle"

DevalueInit ==
    /\ dv_encoder \in {"uneval", "stringify"}
    /\ dv_value \in LoadResults
    /\ dv_thrown = NotThrown
    /\ dv_report = NoReport
    /\ dv_pc = "start"

\* the encoder has run and its caller has caught what it threw
Encoded(result) ==
    /\ dv_thrown' = [result EXCEPT !.keys = <<>>]
    /\ dv_report' = IF result.threw THEN clarify_devalue_error(result)
                    ELSE NoReport
    /\ dv_pc' = "done"
    /\ UNCHANGED <<dv_encoder, dv_value>>
    /\ UNCHANGED notDevalueVars

\* ---- actions
\* get_data: uneval(node.data, replacer), and its catch
Uneval ==
    /\ dv_pc = "start"
    /\ dv_encoder = "uneval"
    /\ Encoded(walk(dv_value))

\* get_data_json: stringify(node.data, reducers), and its catch
Stringify ==
    /\ dv_pc = "start"
    /\ dv_encoder = "stringify"
    /\ Encoded(flatten(dv_value))

DevalueNext == Uneval \/ Stringify

\* ---- claims about the paths
\* the accessors from a value to the first value inside it (itself included)
\* that cannot be serialized: [found, path]
RECURSIVE Offender(_), OffenderIn(_, _, _)
Offender(thing) ==
    IF thing.type \in {"function", "instance", "symbolic"}
    THEN [found |-> TRUE, path |-> <<>>]
    ELSE OffenderIn(thing.type, thing.entries, 1)

OffenderIn(type, entries, k) ==
    IF k > Len(entries) THEN [found |-> FALSE, path |-> <<>>]
    ELSE LET inner == Offender(entries[k].value)
         IN  IF inner.found
             THEN [found |-> TRUE,
                   path |-> Accessor(type, entries[k], k) \o inner.path]
             ELSE OffenderIn(type, entries, k + 1)

\* C24: a load result that holds a function, an instance of a class or an
\* object with symbol keys makes either encoder throw an error whose path is
\* exactly the accessors from the root to that value, and the caller reports
\* it with the route.
C24_PathIsAccessorChain ==
    (dv_pc = "done" /\ Offender(dv_value).found)
        => /\ dv_thrown.threw
           /\ dv_thrown.path = Offender(dv_value).path
           /\ dv_report.route = RouteId

\* C24: stringify reported data.a.b for the function at data.b that follows a
\* Map at data.a
C24_Divergence ==
    /\ dv_pc = "done"
    /\ dv_encoder = "stringify"
    /\ dv_value.type = "object"
    /\ Len(dv_value.entries) = 2
    /\ dv_value.entries[1].value.type = "map"
    /\ dv_value.entries[2].value = Leaf("function")
    /\ Offender(dv_value).path = <<".", "b">>
    /\ dv_thrown.threw
    /\ dv_thrown.path = <<".", "a", ".", "b">>

\* C24 for uneval alone: its paths are exact
C24_UnevalPathExact ==
    (dv_pc = "done" /\ dv_encoder = "uneval")
        => /\ dv_thrown.threw = Offender(dv_value).found
           /\ dv_thrown.path = Offender(dv_value).path

\* C24 for stringify without Maps: its paths are exact
RECURSIVE HasMap(_)
HasMap(thing) ==
    \/ thing.type = "map"
    \/ \E k \in DOMAIN thing.entries : HasMap(thing.entries[k].value)

C24_StringifyPathExactWithoutMaps ==
    (dv_pc = "done" /\ dv_encoder = "stringify" /\ ~HasMap(dv_value))
        => /\ dv_thrown.threw = Offender(dv_value).found
           /\ dv_thrown.path = Offender(dv_value).path

\* ---- what the claims about a failed load of a page speak of
\* the depths whose server load or universal load has failed
FailedDepths ==
    {d \in DOMAIN Nodes :
        server_promises[d].state = "rejected" \/ load_promises[d].state = "rejected"}

\* the first (shallowest) depth whose load failed
FirstFailedDepth == CHOOSE d \in FailedDepths : \A e \in FailedDepths : d <= e

\* the entry is the loaded entry of a node of the page above the depth
IsEntryAbove(entry, depth) ==
    \E d \in 1..(depth - 1) :
        /\ Nodes[d] # NoNode
        /\ entry = Loaded(Nodes[d], server_promises[d].value, load_promises[d].value)

\* the entry is the synthesized entry { node, data: null, server_data: null }
\* of an error node the page declares
IsErrorEntry(entry) ==
    \E k \in DOMAIN page.errors :
        /\ IsErrorNode(page.errors[k])
        /\ entry = Loaded(page.errors[k], NoServerData, Null)

(***************************************************************************)
(* C26: in render_page, the branch passed to render_response never         *)
(* contains a loaded entry for a node deeper than the first depth whose    *)
(* load failed, except the single synthesized error-node entry appended    *)
(* last, whatever the order in which the concurrently started loads        *)
(* complete. Stated in the stronger form the code gives: once a load has   *)
(* failed, every entry of the rendered branch but the last is the loaded   *)
(* entry of a depth above the first failed depth (the failed depth itself  *)
(* has no entry either), and the last is the synthesized error entry.      *)
(***************************************************************************)
C26_NothingBelowFirstFailure ==
    (rendered.called /\ FailedDepths # {}) =>
        LET n == Len(rendered.branch)
        IN  /\ rendered.has_error
            /\ n >= 1
            /\ IsErrorEntry(rendered.branch[n])
            /\ \A k \in 1..(n - 1) :
                  IsEntryAbove(rendered.branch[k], FirstFailedDepth)

\* a nested layout's load failed after the leaf's server load had returned
\* data: the page is rendered without the leaf's entry
C26_Witness ==
    /\ page_pc = "resolved"
    /\ Len(Nodes) = 3
    /\ FailedDepths # {}
    /\ FirstFailedDepth = 2
    /\ server_promises[3].state = "fulfilled"
    /\ server_promises[3].value.type = "data"
    /\ rendered.called
    /\ Len(rendered.branch) = 2

\* the boundaries declared above depth i
BoundariesAbove(i) == {k \in 1..(i - 1) : IsErrorNode(page.errors[k])}

\* the greatest depth of a set of depths
Deepest(depths) == CHOOSE k \in depths : \A d \in depths : d <= k

\* the loaded entries of the depths up to k, the depths the page leaves out
\* skipped
RECURSIVE LoadedUpTo(_)
LoadedUpTo(k) ==
    IF k = 0 THEN <<>>
    ELSE LoadedUpTo(k - 1)
            \o (IF Nodes[k] = NoNode THEN <<>>
                ELSE <<Loaded(Nodes[k], server_promises[k].value,
                              load_promises[k].value)>>)

(***************************************************************************)
(* C27: when the load at depth i (the depth at which render_page's loop    *)
(* catches the failure) fails with a non-redirect error, the page is       *)
(* rendered again with the error boundary of the greatest depth k < i that *)
(* declares one, with the loaded entries of the depths up to k (null gaps  *)
(* skipped) followed by the synthesized error entry, and with the error's  *)
(* status (that of an HttpError, else 500); only when no depth k < i       *)
(* declares a boundary is the static error document returned.              *)
(***************************************************************************)
C27_NearestBoundaryAbove ==
    \A i \in DOMAIN Nodes :
        (LoadFailedAt(i) /\ CaughtAt(i).name # "Redirect") =>
            LET err == CaughtAt(i)
                error_status == IF err.name = "HttpError" THEN err.status ELSE 500
            IN  IF BoundariesAbove(i) # {}
                THEN LET k == Deepest(BoundariesAbove(i))
                     IN  /\ rendered.called
                         /\ rendered.has_error
                         /\ rendered.status = error_status
                         /\ rendered.branch =
                                LoadedUpTo(k)
                                    \o <<Loaded(page.errors[k], NoServerData, Null)>>
                ELSE /\ ~rendered.called
                     /\ response.status = error_status
                     /\ response.body =
                            static_error_page(error_status,
                                              handle_error_and_jsonify(err).message).body

\* the leaf's load failed under a boundary declared at a depth the page has
\* no layout for: the root layout's entry and the error entry are rendered
C27_Witness ==
    /\ page_pc = "resolved"
    /\ Len(Nodes) = 3
    /\ Nodes[2] = NoNode
    /\ LoadFailedAt(3)
    /\ CaughtAt(3).name # "Redirect"
    /\ BoundariesAbove(3) # {}
    /\ Deepest(BoundariesAbove(3)) = 2
    /\ rendered.called
    /\ Len(rendered.branch) = 2

\* a nested layout's load failed and no depth above it declares a boundary
C27_StaticErrorPage ==
    /\ page_pc = "resolved"
    /\ LoadFailedAt(2)
    /\ CaughtAt(2).name # "Redirect"
    /\ BoundariesAbove(2) = {}
    /\ ~rendered.called

\* ---- what the claim about the order of action and loads speaks of
\* a POST to a page that render_page answers itself (no JSON action request)
PagePost == is_action_request(request) /\ ~is_action_json_request(request)

\* some load of the page has run
SomeLoadRan ==
    \E d \in DOMAIN Nodes :
        server_promises[d].state # "pending" \/ load_promises[d].state # "pending"

\* handle_action_request has returned
ActionSettled == action_run # NotRun /\ action_result # NoActionResult

C38_Redirected ==
    /\ PagePost
    /\ action_result.type = "redirect"
    /\ Resolved
    /\ response.status = 303
    /\ ~SomeLoadRan

\* the page has no actions: the 405 error is raised at the leaf as well
C38_NoActions ==
    /\ PagePost
    /\ ~action_run.actions
    /\ action_result.type = "error"
    /\ LoadFailedAt(Len(Nodes))
    /\ rendered.called
    /\ rendered.status = 405

(***************************************************************************)
(* The server loads of a request's nodes: render_data's functions and      *)
(* promises, render_page's server_promises, and parent()                   *)
(***************************************************************************)
\* ---- bounds and inputs
\* the most calls of parent() one load makes
MaxParentCalls == 2

\* const node_ids = [...route.page.layouts, route.page.leaf]: the route of the
\* request has a root layout, a nested layout and a leaf
RouteNodeIds == <<0, 2, 3>>

Depths == DOMAIN RouteNodeIds

\* the request has no x-sveltekit-invalidated parameter
NoParam == <<"absent">>

\* the bitstrings of the length of the route's nodes at most
BitStrings ==
    UNION {[1..n -> {"0", "1"}] : n \in 0..Len(RouteNodeIds)}

\* what a node's server load does: the node has none, or the load calls
\* parent() some times and then returns data, throws an error or redirects
NoServerLoad == [server |-> FALSE, outcome |-> "null", parents |-> 0]

ServerLoad(outcome, parents) ==
    [server |-> TRUE, outcome |-> outcome, parents |-> parents]

LoadBehaviours ==
    {NoServerLoad, ServerLoad("redirect", 0)}
        \cup {ServerLoad(outcome, parents) :
                outcome \in {"data", "error"}, parents \in 0..MaxParentCalls}

\* ---- values
\* a data object: the value of each key, 0 for a key it does not have. Key 0
\* is one every load sets, key d is set by the load of depth d alone
Keys == 0..Len(RouteNodeIds)

NoData == [key \in Keys |-> 0]

\* what the load of depth d returns: { 0: d, [d]: d }
NodeData(d) == [key \in Keys |-> IF key \in {0, d} THEN d ELSE 0]

\* Object.assign(target, source)
ObjectAssign(target, source) ==
    [key \in Keys |-> IF source[key] # 0 THEN source[key] ELSE target[key]]

\* what a call of functions[i] or the await of server_promises[i] yields: the
\* load has not been started, is running, or has settled with null,
\* { type: 'skip' }, { type: 'data', data } or a thrown error
Result(type, data, err) == [type |-> type, data |-> data, error |-> err]

NotStartedResult == Result("none", NoData, NoError)

RunningResult == Result("running", NoData, NoError)

NullResult == Result("null", NoData, NoError)

SkipResult == Result("skip", NoData, NoError)

DataResult(data) == Result("data", data, NoError)

ThrownResult(err) == Result("thrown", NoData, err)

IsSettled(result) == result.type \in {"null", "skip", "data", "thrown"}

\* the error a load of the model throws
LoadError == PlainError(<<"b", "o", "o", "m">>)

\* the redirect a load of the model throws
LoadRedirect == Redirect(307, <<"/", "l", "o", "g", "i", "n">>)

\* ---- once
\* once(fn) were it to forget that it ran: a variant in which every call of
\* the wrapper invokes fn
once_every_call(is_done) == TRUE

\* once(fn): whether a call of the wrapper invokes fn, given its `done` flag
once(is_done) == ~is_done

\* ---- the invalidated nodes
\* a bit other than '0' taken for an invalidated node: a variant of
\* is_invalidated in which a bitstring that is too short invalidates the rest
is_invalidated_unless_zero(param, i) ==
    param = NoParam \/ i > Len(param) \/ param[i] # "0"

\* url.searchParams.get(INVALIDATED_PARAM)?.split('').map((n) => n === '1')
\* and invalidated_data_nodes ?? node_ids.map(() => true), at depth i
is_invalidated(param, i) ==
    IF param = NoParam THEN TRUE
    ELSE i <= Len(param) /\ param[i] = "1"

\* ---- a call of parent()
\* the call of depth i's load: its state, the depth j it is at, whether it
\* has called functions[j] yet, the data merged so far, and how many calls
\* the load has still to make
ParentCallState(state, j, called, data, left) ==
    [state |-> state, j |-> j, called |-> called, data |-> data, left |-> left]

\* ---- the body of functions[i] and of the task behind server_promises[i]
\* up to the call of the node's load: `if (aborted) return { type: 'skip' }`,
\* `if (!node?.server) return null`, else the load function is invoked
Invoked(i) ==
    IF pt_mode = "data" /\ pt_aborted THEN SkipResult
    ELSE IF ~pt_loads[i].server THEN NullResult
    ELSE RunningResult

\* the ServerErrorNode status: error instanceof HttpError ? error.status : undefined
\* (0 for undefined)
ErrorNodeStatus(err) == IF err.name = "HttpError" THEN err.status ELSE 0

\* promises[i] of render_data: { type: 'skip' } unless the node is invalidated
PromiseOf(i) ==
    IF ~is_invalidated(pt_param, i) THEN SkipResult ELSE pt_fn[i].result

\* an element of `nodes`: null, { type: 'skip' }, { type: 'data', data } or
\* { type: 'error', error, status } (status 0 when it is undefined)
ServerNode(type, data, err, node_status) ==
    [type |-> type, data |-> data, error |-> err, status |-> node_status]

\* p.catch(...): the element of `nodes` for a settled promise
NodeOf(result) ==
    IF result.type = "thrown"
    THEN ServerNode("error", NoData, handle_error_and_jsonify(result.error),
                    ErrorNodeStatus(result.error))
    ELSE ServerNode(result.type, result.data, [message |-> <<>>], 0)

\* ---- states
ParentIdle ==
    /\ pt_mode = "none"
    /\ pt_param = NoParam
    /\ pt_loads = <<>>
    /\ pt_aborted = FALSE
    /\ pt_fn = <<>>
    /\ pt_runs = <<>>
    /\ pt_parent = <<>>
    /\ pt_seen = <<>>
    /\ pt_nodes = <<>>
    /\ pt_redirected = FALSE
    /\ pt_pc = "idle"

\* render_data or render_page has been entered for the route
ParentInit ==
    /\ pt_mode \in {"data", "page"}
    /\ pt_param \in (IF pt_mode = "data" THEN BitStrings \cup {NoParam} ELSE {NoParam})
    /\ pt_loads \in [Depths -> LoadBehaviours]
    /\ pt_aborted = FALSE
    /\ pt_fn = [i \in Depths |-> [done |-> FALSE, result |-> NotStartedResult]]
    /\ pt_runs = [i \in Depths |-> 0]
    /\ pt_parent = [i \in Depths |->
                       ParentCallState("idle", 1, FALSE, NoData, pt_loads[i].parents)]
    /\ pt_seen = [i \in Depths |-> {}]
    /\ pt_nodes = <<>>
    /\ pt_redirected = FALSE
    /\ pt_pc = "start"

\* ---- actions
\* render_data: functions.map(async (fn, i) => !invalidated[i] ? skip : fn()),
\* every invalidated node's function called in the same tick; render_page:
\* nodes.map(... Promise.resolve().then(...)), every node's task started
StartLoads ==
    /\ pt_pc = "start"
    /\ LET starts(i) == pt_mode = "page"
                           \/ (is_invalidated(pt_param, i) /\ once(pt_fn[i].done))
       IN  /\ pt_fn' = [i \in Depths |->
                           IF starts(i) THEN [done |-> TRUE, result |-> Invoked(i)]
                           ELSE pt_fn[i]]
           /\ pt_runs' = [i \in Depths |->
                             IF starts(i) /\ Invoked(i) = RunningResult
                             THEN pt_runs[i] + 1 ELSE pt_runs[i]]
    /\ pt_pc' = "running"
    /\ UNCHANGED <<pt_mode, pt_param, pt_loads, pt_aborted, pt_parent, pt_seen,
                   pt_nodes, pt_redirected>>
    /\ UNCHANGED notParentVars

\* the load of depth i calls parent(); at the root the loop has no turn and
\* the call resolves with {}
CallParent(i) ==
    /\ pt_pc \in {"running", "done"}
    /\ pt_fn[i].result = RunningResult
    /\ pt_parent[i].state \in {"idle", "resolved"}
    /\ pt_parent[i].left > 0
    /\ pt_parent' = [pt_parent EXCEPT ![i] =
                        ParentCallState(IF i = 1 THEN "resolved" ELSE "active", 1,
                                        FALSE, NoData, pt_parent[i].left - 1)]
    /\ UNCHANGED <<pt_mode, pt_param, pt_loads, pt_aborted, pt_fn, pt_runs, pt_seen,
                   pt_nodes, pt_redirected, pt_pc>>
    /\ UNCHANGED notParentVars

\* one turn of parent()'s loop, up to its await: render_data calls
\* functions[j](), which invokes the function unless it ran before;
\* render_page reads server_promises[j]
ParentCallsFunction(i) ==
    /\ pt_parent[i].state = "active"
    /\ ~pt_parent[i].called
    /\ LET j == pt_parent[i].j
           invokes == pt_mode = "data" /\ once(pt_fn[j].done)
       IN  /\ pt_fn' = IF invokes
                       THEN [pt_fn EXCEPT ![j] = [done |-> TRUE, result |-> Invoked(j)]]
                       ELSE pt_fn
           /\ pt_runs' = IF invokes /\ Invoked(j) = RunningResult
                         THEN [pt_runs EXCEPT ![j] = @ + 1]
                         ELSE pt_runs
    /\ pt_parent' = [pt_parent EXCEPT ![i].called = TRUE]
    /\ UNCHANGED <<pt_mode, pt_param, pt_loads, pt_aborted, pt_seen, pt_nodes,
                   pt_redirected, pt_pc>>
    /\ UNCHANGED notParentVars

\* the await of parent()'s loop is over: `if (parent) Object.assign(data,
\* parent.data)` and the next turn, the call resolving after the last; or the
\* rejection, which the load passes on (its catch sets `aborted`)
ParentAwaits(i) ==
    /\ pt_parent[i].state = "active"
    /\ pt_parent[i].called
    /\ LET j == pt_parent[i].j
           result == pt_fn[j].result
       IN  /\ IsSettled(result)
           /\ pt_seen' = [pt_seen EXCEPT ![j] = @ \cup {result}]
           /\ IF result.type = "thrown"
              THEN /\ pt_parent' = [pt_parent EXCEPT ![i].state = "rejected"]
                   /\ pt_fn' = [pt_fn EXCEPT ![i].result = ThrownResult(result.error)]
                   /\ pt_aborted' = (pt_aborted \/ pt_mode = "data")
              ELSE /\ pt_parent' =
                          [pt_parent EXCEPT ![i] =
                              ParentCallState(IF j + 1 = i THEN "resolved" ELSE "active",
                                              j + 1, FALSE,
                                              IF result.type = "data"
                                              THEN ObjectAssign(pt_parent[i].data,
                                                                result.data)
                                              ELSE pt_parent[i].data,
                                              pt_parent[i].left)]
                   /\ UNCHANGED <<pt_fn, pt_aborted>>
    /\ UNCHANGED <<pt_mode, pt_param, pt_loads, pt_runs, pt_nodes, pt_redirected, pt_pc>>
    /\ UNCHANGED notParentVars

\* the load of depth i, its calls of parent() made, returns or throws; the
\* catch around it sets `aborted` in render_data
LoadSettles(i) ==
    /\ pt_pc \in {"running", "done"}
    /\ pt_fn[i].result = RunningResult
    /\ pt_parent[i].state \in {"idle", "resolved"}
    /\ pt_parent[i].left = 0
    /\ LET outcome == pt_loads[i].outcome
       IN  /\ pt_fn' = [pt_fn EXCEPT ![i].result =
                           IF outcome = "data" THEN DataResult(NodeData(i))
                           ELSE IF outcome = "error" THEN ThrownResult(LoadError)
                           ELSE ThrownResult(LoadRedirect)]
           /\ pt_aborted' = (pt_aborted \/ (pt_mode = "data" /\ outcome # "data"))
    /\ UNCHANGED <<pt_mode, pt_param, pt_loads, pt_runs, pt_parent, pt_seen, pt_nodes,
                   pt_redirected, pt_pc>>
    /\ UNCHANGED notParentVars

\* render_data after `await Promise.all(...)`: a Redirect thrown by an
\* invalidated node rejects it and the redirect is answered; otherwise every
\* promise has settled and `nodes` goes to get_data_json
ReturnNodes ==
    /\ pt_pc = "running"
    /\ pt_mode = "data"
    /\ LET redirects ==
               \E i \in Depths : /\ PromiseOf(i).type = "thrown"
                                 /\ PromiseOf(i).error.name = "Redirect"
       IN  /\ redirects \/ \A i \in Depths : IsSettled(PromiseOf(i))
           /\ pt_redirected' = redirects
           /\ pt_nodes' = IF redirects THEN <<>>
                          ELSE [i \in Depths |-> NodeOf(PromiseOf(i))]
    /\ pt_pc' = "done"
    /\ UNCHANGED <<pt_mode, pt_param, pt_loads, pt_aborted, pt_fn, pt_runs, pt_parent,
                   pt_seen>>
    /\ UNCHANGED notParentVars

ParentNext ==
    \/ StartLoads
    \/ \E i \in Depths : CallParent(i)
    \/ \E i \in Depths : ParentCallsFunction(i)
    \/ \E i \in Depths : ParentAwaits(i)
    \/ \E i \in Depths : LoadSettles(i)
    \/ ReturnNodes

\* ---- what the claims about the loads of a request speak of
\* render_data has handed `nodes` to get_data_json
NodesReturned == pt_mode = "data" /\ pt_pc = "done" /\ ~pt_redirected

\* the node's position in the bitstring of the data request is not '1'
IsReusable(i) ==
    /\ pt_mode = "data"
    /\ pt_param # NoParam
    /\ i > Len(pt_param) \/ pt_param[i] # "1"

\* the load of depth i has called parent()
HasCalledParent(i) == pt_parent[i].left < pt_loads[i].parents

(***************************************************************************)
(* C25, as the specification states it: in a data request, once the server *)
(* load of some depth throws a non-redirect error, every deeper depth is   *)
(* reported as a 'skip' node and its load function is not run; the         *)
(* returned nodes carry no loaded data for a depth deeper than the first   *)
(* error. The code calls the function of every invalidated node in one     *)
(* tick, before any load can have thrown, so `aborted` is still false for  *)
(* each of them, and the `length` it computes from the first error is      *)
(* never used: deeper loads run and their data is returned.                *)
(***************************************************************************)
C25_DeeperSkippedAfterError ==
    NodesReturned =>
        \A i \in Depths :
            pt_nodes[i].type = "error" =>
                \A k \in Depths :
                    k > i => /\ pt_nodes[k].type = "skip"
                             /\ pt_nodes[k].data = NoData
                             /\ pt_runs[k] = 0

\* the root layout's load threw, the nested layout's load ran and its data
\* is among the returned nodes
C25_Divergence ==
    /\ NodesReturned
    /\ pt_nodes[1].type = "error"
    /\ pt_nodes[2].type = "data"
    /\ pt_nodes[2].data = NodeData(2)
    /\ pt_runs[2] = 1

\* the merge, in increasing depth order, of what the loads of depths 1..k return
RECURSIVE MergedUpTo(_)
MergedUpTo(k) ==
    IF k = 0 THEN NoData
    ELSE IF pt_loads[k].server THEN ObjectAssign(MergedUpTo(k - 1), NodeData(k))
    ELSE MergedUpTo(k - 1)

\* the parent() call of depth i resolved after the loads of every shallower
\* depth had completed without failing, with the merge of their data
ResolvedWithAllShallower(i) ==
    /\ \A j \in 1..(i - 1) :
          /\ IsSettled(pt_fn[j].result)
          /\ pt_fn[j].result.type # "thrown"
          /\ pt_loads[j].server => pt_fn[j].result = DataResult(NodeData(j))
    /\ pt_parent[i].data = MergedUpTo(i - 1)

C28_ParentMergesUnlessSkipped ==
    \A i \in Depths :
        (/\ pt_parent[i].state = "resolved"
         /\ \A j \in 1..(i - 1) : pt_fn[j].result # SkipResult)
            => ResolvedWithAllShallower(i)

\* a parent() call of the leaf resolved with the data of both layouts, the
\* nested layout's value of the shared key over the root's
C28_Merged ==
    /\ pt_parent[3].state = "resolved"
    /\ pt_loads[1].server
    /\ pt_loads[2].server
    /\ pt_parent[3].data = [key \in Keys |-> IF key = 1 THEN 1 ELSE IF key = 3 THEN 0 ELSE 2]

C29_PageWitness ==
    /\ pt_mode = "page"
    /\ pt_loads[3].parents = 2
    /\ pt_parent[3].left = 0
    /\ pt_parent[3].state = "resolved"
    /\ pt_parent[2].state = "resolved"
    /\ HasCalledParent(2)
    /\ pt_runs[1] = 1
    /\ pt_seen[1] = {DataResult(NodeData(1))}

C30_NotLoaded ==
    /\ NodesReturned
    /\ IsReusable(2)
    /\ pt_loads[2].server
    /\ pt_nodes[2].type = "skip"
    /\ pt_runs[2] = 0
    /\ ~pt_fn[2].done

\* ---- what the claims about the body of an action request speak of
\* the media type of the body is one of the form-encoded kinds
FormKinds ==
    { <<"a", "p", "p", "l", "i", "c", "a", "t", "i", "o", "n", "/", "x", "-", "w", "w", "w", "-", "f", "o", "r", "m", "-", "u", "r", "l", "e", "n", "c", "o", "d", "e", "d">>,
      <<"m", "u", "l", "t", "i", "p", "a", "r", "t", "/", "f", "o", "r", "m", "-", "d", "a", "t", "a">>,
      <<"t", "e", "x", "t", "/", "p", "l", "a", "i", "n">> }

IsFormPost == LowerString(trim(BeforeSemicolon(act_content_type))) \in FormKinds

\* call_action was reached and the query names an action of the page
HandlerSelected ==
    /\ CallActionReached
    /\ ~(SlashKeys # {} /\ AskedName = <<"d", "e", "f", "a", "u", "l", "t">>)
    /\ AskedName \in act_actions.names

(***************************************************************************)
(* C31: when a POST's content-type is not one of the form-encoded kinds    *)
(* (application/x-www-form-urlencoded, multipart/form-data, text/plain),   *)
(* no action handler is invoked, and where call_action had selected one    *)
(* the outcome is an error outcome for a plain Error, of status 500: not a *)
(* failure outcome and not an HttpError.                                   *)
(***************************************************************************)
C31_NotFormNeverInvokes ==
    (act_pc = "done" /\ ~IsFormPost) =>
        /\ act_invoked = <<>>
        /\ (HandlerSelected /\ PageActionDone) =>
              /\ act_result.type = "error"
              /\ act_result.error.name = "Error"
              /\ act_result.error = NotFormError
              /\ ErrorStatus(act_result.error) = 500
        /\ (HandlerSelected /\ JsonActionDone) =>
              /\ act_response.status = 500
              /\ act_response.body.value.type = "error"
              /\ act_reported = NotFormError

\* a JSON body was posted to a page's default action
C31_Witness ==
    /\ PageActionDone
    /\ HandlerSelected
    /\ act_content_type = <<"a", "p", "p", "l", "i", "c", "a", "t", "i", "o", "n", "/", "j", "s", "o", "n">>
    /\ act_invoked = <<>>
    /\ act_result.type = "error"

\* the same at a JSON action request
C31_JsonWitness ==
    /\ JsonActionDone
    /\ HandlerSelected
    /\ ~IsFormPost
    /\ act_invoked = <<>>
    /\ act_response.status = 500

\* the page's actions hold `default` together with a named action
DefaultWithNamed ==
    /\ act_actions.exported
    /\ <<"d", "e", "f", "a", "u", "l", "t">> \in act_actions.names
    /\ act_actions.names # {<<"d", "e", "f", "a", "u", "l", "t">>}

(***************************************************************************)
(* C32: for a page whose actions hold `default` together with at least one *)
(* named action, every POST fails before any action handler is invoked,    *)
(* whichever action the request names, at a page action request (the       *)
(* responder throws, no outcome is produced) and at a JSON action request  *)
(* (the answer has status 500).                                            *)
(***************************************************************************)
C32_DefaultWithNamedFailsFast ==
    (act_pc = "done" /\ DefaultWithNamed) =>
        /\ act_invoked = <<>>
        /\ act_run.outcome = "mixed"
        /\ PageActionDone =>
              /\ act_result.type = "thrown"
              /\ act_result.error = MixedActionsError
        /\ JsonActionDone =>
              /\ act_response.status = 500
              /\ act_reported = MixedActionsError

\* a POST that names the page's named action, a form body, at a page with a
\* default action as well
C32_Witness ==
    /\ PageActionDone
    /\ DefaultWithNamed
    /\ IsFormPost
    /\ AskedName \in act_actions.names
    /\ AskedName # <<"d", "e", "f", "a", "u", "l", "t">>
    /\ act_invoked = <<>>
    /\ act_result.type = "thrown"

\* the same at a JSON action request
C32_JsonWitness ==
    /\ JsonActionDone
    /\ DefaultWithNamed
    /\ IsFormPost
    /\ AskedName \in act_actions.names
    /\ act_invoked = <<>>
    /\ act_response.status = 500

(***************************************************************************)
(* C36, as the specification states it: a setHeaders call that throws      *)
(* (because one of its keys is set-cookie or names a header already set,   *)
(* compared case-insensitively) leaves the request's header accumulator    *)
(* exactly as it was before the call. The code writes the keys one by one  *)
(* and throws at the first it rejects: the keys before it stay recorded.   *)
(***************************************************************************)
C36_ThrowingCallWritesNothing ==
    (last_call.call = "setHeaders" /\ last_call.threw) => ~last_call.changed

\* setHeaders({ age, 'cache-control', 'Set-Cookie' }) called before the
\* response was produced threw, and `age` is in the accumulator
C36_Divergence ==
    /\ last_call.call = "setHeaders"
    /\ ~last_call.late
    /\ last_call.threw
    /\ last_call.changed
    /\ "age" \in DOMAIN event_headers
    /\ "set-cookie" \notin DOMAIN event_headers

\* a throwing call whose first key is rejected changes nothing
C36_RejectedFirstKey ==
    /\ last_call.call = "setHeaders"
    /\ ~last_call.late
    /\ last_call.threw
    /\ ~last_call.changed

(***************************************************************************)
(* C33: every header set through setHeaders and every cookie set through   *)
(* cookies.set by an action or a load before the response is produced,     *)
(* whatever the order in which the loads complete, is on the response      *)
(* resolve returns, and the accumulated headers and cookies are put on     *)
(* that response exactly once: each header of the accumulator with its     *)
(* value, and one set-cookie line for the cookie.                          *)
(***************************************************************************)
C33_AccumulatedOnResponse ==
    Resolved =>
        /\ \A key \in DOMAIN headers :
              /\ key \in DOMAIN response.headers
              /\ response.headers[key] = headers[key]
        /\ \A name \in DOMAIN cookies_to_add :
              /\ "set-cookie" \in DOMAIN response.headers
              /\ response.headers["set-cookie"] = serialize(cookies_to_add[name])
        /\ DOMAIN cookies_to_add = {} => "set-cookie" \notin DOMAIN response.headers

\* a load set cache-control, another set a cookie and a third failed: the
\* error page carries both
C33_Witness ==
    /\ page_pc = "resolved"
    /\ rendered.called
    /\ rendered.has_error
    /\ "cache-control" \in DOMAIN headers
    /\ DOMAIN cookies_to_add # {}
    /\ response.headers["cache-control"] = SetsCacheControl.value
    /\ "set-cookie" \in DOMAIN response.headers

\* the redirect answered for a load's Redirect carries the cookie another
\* load had set
C33_RedirectWithCookie ==
    /\ page_pc = "resolved"
    /\ response.status = 307
    /\ DOMAIN cookies_to_add # {}
    /\ "set-cookie" \in DOMAIN response.headers

(***************************************************************************)
(* Parameter extraction (exec) on what a route's pattern captures          *)
(***************************************************************************)
\* ---- inputs
\* parameter lists of: /[[lang=integer]]/[[tab]]/[id]/edit/[rev]/[[view]],
\* /[[lang=integer]]/[id]/[[view]], and the lists of RouteShapes
ExecShapes ==
    RouteShapes
        \cup { <<Param("lang", "integer", TRUE, FALSE, TRUE),
                 Param("tab", NoMatcher, TRUE, FALSE, TRUE),
                 Param("id", NoMatcher, FALSE, FALSE, FALSE),
                 Param("rev", NoMatcher, FALSE, FALSE, FALSE),
                 Param("view", NoMatcher, TRUE, FALSE, TRUE)>>,
               <<Param("lang", "integer", TRUE, FALSE, TRUE),
                 Param("id", NoMatcher, FALSE, FALSE, FALSE),
                 Param("view", NoMatcher, TRUE, FALSE, TRUE)>> }

\* what the group of a parameter captures when the pattern matches: a
\* segment for a required parameter, a segment or nothing for an optional
\* one, any text (none included) for a rest parameter
GroupValues(param) ==
    IF param.rest THEN {<<>>, <<"a">>, <<"1">>}
    ELSE IF param.optional THEN {Undefined, <<"a">>, <<"1">>}
    ELSE {<<"a">>, <<"1">>}

PatternCaptures(ps) ==
    {values \in [1..Len(ps) -> {Undefined, <<>>, <<"a">>, <<"1">>}] :
        \A k \in 1..Len(ps) : values[k] \in GroupValues(ps[k])}

NotExecuted == [ok |-> FALSE, result |-> EmptyObject, buffered |-> 0]

\* ---- states
ExecIdle ==
    /\ ex_params = <<>>
    /\ ex_values = <<>>
    /\ ex_out = NotExecuted
    /\ ex_pc = "idle"

\* a candidate's pattern has matched the path
ExecInit ==
    /\ ex_params \in ExecShapes
    /\ ex_values \in PatternCaptures(ex_params)
    /\ ex_out = NotExecuted
    /\ ex_pc = "start"

\* ---- actions
\* const matched = exec(match, candidate.params, matchers)
Exec ==
    /\ ex_pc = "start"
    /\ ex_out' = exec(ex_values, ex_params)
    /\ ex_pc' = "done"
    /\ UNCHANGED <<ex_params, ex_values>>
    /\ UNCHANGED notExecVars

ExecNext == Exec

\* ---- what the claim about exec speaks of
\* the parameters that are neither optional nor rest
RequiredNames ==
    {ex_params[k].name : k \in {n \in DOMAIN ex_params :
                                  ~ex_params[n].optional /\ ~ex_params[n].rest}}

\* exec returned a parameter map
ExecReturnedMap == ex_pc = "done" /\ ex_out.ok

(***************************************************************************)
(* C34, as the specification states it: exec returns a parameter map only  *)
(* when its buffered-optional counter is zero at the end of the walk, and  *)
(* every returned map has an entry for every required (non-optional,       *)
(* non-rest) parameter of the route; otherwise it returns nothing. While   *)
(* the counter is not zero a required parameter reads the group of the     *)
(* parameter before it; when that group captured nothing the parameter is  *)
(* passed over, and a later match that resets the counter lets the map be  *)
(* returned without it.                                                    *)
(***************************************************************************)
C34_MapHoldsRequired ==
    /\ ExecReturnedMap =>
          /\ ex_out.buffered = 0
          /\ \A name \in RequiredNames : name \in DOMAIN ex_out.result
    /\ (ex_pc = "done" /\ ~ex_out.ok) => ex_out.result = EmptyObject

\* /x/y/edit/z/w on /[[lang=integer]]/[[tab]]/[id]/edit/[rev]/[[view]]: the
\* groups are a, none, a, a, a, and the map has no `id`
C34_Divergence ==
    /\ ExecReturnedMap
    /\ Len(ex_params) = 5
    /\ ex_values = <<<<"a">>, Undefined, <<"a">>, <<"a">>, <<"a">>>>
    /\ "id" \in RequiredNames
    /\ "id" \notin DOMAIN ex_out.result
    /\ DOMAIN ex_out.result = {"tab", "rev", "view"}

\* a map is returned only when the counter is zero at the end, and nothing
\* is returned otherwise
C34_ZeroBufferAtEnd ==
    /\ ExecReturnedMap => ex_out.buffered = 0
    /\ (ex_pc = "done" /\ ~ex_out.ok) => ex_out.result = EmptyObject

\* every required parameter has an entry when no optional parameter of the
\* route has a matcher
C34_RequiredWithoutOptionalMatchers ==
    (/\ ExecReturnedMap
     /\ \A k \in DOMAIN ex_params :
           ex_params[k].optional => ex_params[k].matcher = NoMatcher)
        => \A name \in RequiredNames : name \in DOMAIN ex_out.result

\* a trailing counter that is not zero rejected the candidate
C34_Rejected ==
    /\ ex_pc = "done"
    /\ ~ex_out.ok
    /\ ex_out.buffered > 0
    /\ Len(ex_params) = 2

(***************************************************************************)
(* One respond call: the handle hook, resolve, and respond's catch         *)
(***************************************************************************)
\* ---- inputs
\* who throws: nobody; the handle hook before it calls resolve or after
\* resolve returned; a load; the root layout's load in respond_with_error;
\* the page's action; the endpoint's handler; the rendering of the page or
\* the serialization of the data
Throwers ==
    {"nobody", "handle", "handle after resolve", "load", "root load", "action",
     "endpoint", "render"}

ThrownValues == {PlainError(<<"b", "o", "o", "m">>), error(403, <<"n", "o">>), Redirect(303, <<"/", "d", "o", "n", "e">>)}

Throws(by, err) == [by |-> by, error |-> err]

NobodyThrows == Throws("nobody", NoError)

\* the throw is one the request can meet
CanThrow(route_kind, req, by) ==
    CASE by \in {"nobody", "handle", "handle after resolve"} -> TRUE
      [] by = "load" ->
            route_kind = "data" \/ (route_kind = "page" /\ ~is_action_json_request(req))
      [] by = "root load" ->
            \/ route_kind = "none"
            \/ route_kind = "page" /\ is_action_request(req) /\ ~is_action_json_request(req)
      [] by = "action" -> route_kind = "page" /\ is_action_request(req)
      [] by = "endpoint" -> route_kind = "endpoint"
      [] by = "render" ->
            route_kind = "data" \/ (route_kind = "page" /\ ~is_action_json_request(req))

\* the page's action: it returns data, or throws what st_throws says; a page
\* that exposes a default action next to named ones
SettleRuns(throws) ==
    { IF throws.by = "action" THEN ActionRun("throw", 0, Null, throws.error)
      ELSE ActionRun("return", 0, UserData, NoError),
      ActionRun("mixed", 0, Null, NoError) }

\* ---- the opaque documents: what render_response makes of a branch
DocumentHeaders == SetHeader(NoHeaders, "content-type", <<"t", "e", "x", "t", "/", "h", "t", "m", "l">>)

RenderedPage(page_status) == text(<<"<", "p", "a", "g", "e", ">">>, page_status, DocumentHeaders)

RenderedError(page_status, body) ==
    text(<<"<", "e", "r", "r", "o", "r", ">">> \o body.message, page_status, DocumentHeaders)

\* the data response with an error node for the load that failed
DataWithErrorNode(body) ==
    json_response(<<"{", "\"", "t", "y", "p", "e", "\"", ":", "\"", "d", "a", "t", "a", "\"", ",", "\"", "n", "o", "d", "e", "s", "\"", ":", "[", "{", "\"", "t", "y", "p", "e", "\"", ":", "\"", "e", "r", "r", "o", "r", "\"", ",", "\"", "e", "r", "r", "o", "r", "\"", ":", "\"">>
                      \o body.message \o <<"\"", "}", "]", "}">>, 200)

EndpointResponse == text(<<"o", "k">>, 200, NoHeaders)

NoSettled == [state |-> "pending", response |-> NoResponse, error |-> NoError]

ResolvesTo(resp) == [state |-> "resolved", response |-> resp, error |-> NoError]

RejectsWith(err) == [state |-> "rejected", response |-> NoResponse, error |-> err]

\* ---- the renderers, as far as throwing goes
\* respond_with_error({ status, error }): the root layout's load, then the
\* root error page; its catch answers a redirect or the static error page
respond_with_error(route_matched, page_status, err, throws) ==
    IF throws.by = "root load"
    THEN IF throws.error.name = "Redirect"
         THEN redirect_response(throws.error.status, throws.error.message)
         ELSE static_error_page(ErrorStatus(throws.error),
                                jsonify_error(route_matched, HookReturnsNothing,
                                              throws.error).message)
    ELSE RenderedError(page_status, jsonify_error(route_matched, HookReturnsNothing, err))

\* render_page's await loop for the error of a load (or of the action, raised
\* at the leaf)
load_failed(err, boundary) ==
    IF err.name = "Redirect" THEN redirect_response(err.status, err.message)
    ELSE IF boundary
    THEN RenderedError(ErrorStatus(err), handle_error_and_jsonify(err))
    ELSE static_error_page(ErrorStatus(err), handle_error_and_jsonify(err).message)

\* render_page(event, page, ...): the Response it returns or the error it throws
render_page(req, run, throws, boundary) ==
    IF is_action_json_request(req)
    THEN \* outside the try: what handle_action_json_request throws leaves render_page
         handle_action_json_request(run)
    ELSE LET result == IF is_action_request(req) THEN handle_action_request(run)
                       ELSE NoActionResult
         IN  IF result.type = "thrown"
             THEN \* check_named_default_separate threw inside render_page's try
                  Returned(respond_with_error(TRUE, 500, result.error, throws),
                           NoError)
             ELSE IF result.type = "redirect"
             THEN Returned(redirect_response(result.status, result.location),
                           NoError)
             ELSE IF throws.by = "load"
             THEN Returned(load_failed(throws.error, boundary), NoError)
             ELSE IF result.type = "error"
             THEN Returned(load_failed(result.error, boundary), NoError)
             ELSE IF throws.by = "render"
             THEN Returned(respond_with_error(TRUE, 500, throws.error, throws), NoError)
             ELSE Returned(RenderedPage(200), NoError)

\* render_data(event, route, ...)
render_data(throws) ==
    IF throws.by = "load"
    THEN IF throws.error.name = "Redirect"
         THEN Returned(redirect_json_response(throws.error), NoError)
         ELSE Returned(DataWithErrorNode(handle_error_and_jsonify(throws.error)), NoError)
    ELSE IF throws.by = "render"
    THEN IF throws.error.name = "Redirect"
         THEN Returned(redirect_json_response(throws.error), NoError)
         ELSE Returned(json_response(<<"{", "\"", "m", "e", "s", "s", "a", "g", "e", "\"", ":", "\"">>
                                         \o handle_error_and_jsonify(throws.error).message
                                         \o <<"\"", "}">>, 500), NoError)
    ELSE Returned(json_response(<<"{", "\"", "t", "y", "p", "e", "\"", ":", "\"", "d", "a", "t", "a", "\"", ",", "\"", "n", "o", "d", "e", "s", "\"", ":", "[", "]", "}">>, 200), NoError)

\* render_endpoint(event, mod, state): a Redirect is answered, anything else
\* is thrown again
render_endpoint(throws) ==
    IF throws.by = "endpoint"
    THEN IF throws.error.name = "Redirect"
         THEN Returned(redirect_response(throws.error.status, throws.error.message),
                       NoError)
         ELSE Thrown(throws.error)
    ELSE Returned(EndpointResponse, NoError)

\* handle_fatal_error(event, options, error) for the request of this call
fatal_error(route_kind, req, err) ==
    fatal_error_response(req.accept, route_kind = "data", ErrorStatus(err),
                         jsonify_error(route_kind # "none", HookReturnsNothing, err))

\* resolve(event, opts): try { ... } catch (e) { return await handle_fatal_error }
resolve(route_kind, req, run, throws, boundary) ==
    LET returned ==
            CASE route_kind = "data" -> render_data(throws)
              [] route_kind = "endpoint" -> render_endpoint(throws)
              [] route_kind = "page" -> render_page(req, run, throws, boundary)
              [] route_kind = "none" ->
                    Returned(respond_with_error(FALSE, 404, PlainError(<<"N", "o", "t", " ", "f", "o", "u", "n", "d">>),
                                                throws), NoError)
    IN  IF returned.threw THEN fatal_error(route_kind, req, returned.error)
        ELSE returned.response

\* respond's catch were it to answer redirects only: anything else leaves
\* respond as a rejection
respond_catch_redirects_only(route_kind, req, e) ==
    IF e.name = "Redirect"
    THEN ResolvesTo(IF route_kind = "data" THEN redirect_json_response(e)
                    ELSE IF route_kind = "page" /\ is_action_json_request(req)
                    THEN action_json_error(e).response
                    ELSE redirect_response(e.status, e.message))
    ELSE RejectsWith(e)

\* respond's catch (e): the redirect in the form the request expects, else
\* handle_fatal_error
respond_catch(route_kind, req, e) ==
    IF e.name = "Redirect"
    THEN ResolvesTo(IF route_kind = "data" THEN redirect_json_response(e)
                    ELSE IF route_kind = "page" /\ is_action_json_request(req)
                    THEN action_json_error(e).response
                    ELSE redirect_response(e.status, e.message))
    ELSE ResolvesTo(fatal_error(route_kind, req, e))

\* ---- states
SettleIdle ==
    /\ st_route = "none"
    /\ st_request = [method |-> "GET", accept |-> BrowserAccept]
    /\ st_run = NotRun
    /\ st_throws = NobodyThrows
    /\ st_boundary = FALSE
    /\ st_resolved = NoResponse
    /\ st_caught = NoError
    /\ st_result = NoSettled
    /\ st_pc = "idle"

\* respond has matched the route and is about to call the handle hook
SettleInit ==
    /\ st_route \in {"page", "data", "endpoint", "none"}
    /\ st_request \in Requests
    /\ st_throws \in {NobodyThrows}
           \cup {Throws(by, err) : by \in Throwers \ {"nobody"}, err \in ThrownValues}
    /\ CanThrow(st_route, st_request, st_throws.by)
    /\ st_run \in SettleRuns(st_throws)
    /\ st_run.outcome = "mixed" => (st_route = "page" /\ is_action_request(st_request))
    \* respond_with_error is reached from a page only when render_page's try
    \* caught something
    /\ (st_throws.by = "root load" /\ st_route = "page") => st_run.outcome = "mixed"
    /\ st_boundary \in BOOLEAN
    /\ st_resolved = NoResponse
    /\ st_caught = NoError
    /\ st_result = NoSettled
    /\ st_pc = "handle"

\* ---- actions
\* await options.hooks.handle({ event, resolve }): the hook throws, or calls
\* resolve
HandleRuns ==
    /\ st_pc = "handle"
    /\ IF st_throws.by = "handle"
       THEN /\ st_caught' = st_throws.error
            /\ st_pc' = "caught"
       ELSE /\ st_caught' = st_caught
            /\ st_pc' = "resolve"
    /\ UNCHANGED <<st_route, st_request, st_run, st_throws, st_boundary, st_resolved,
                   st_result>>
    /\ UNCHANGED notSettleVars

\* resolve(event, opts) returns its response to the hook
ResolveSettles ==
    /\ st_pc = "resolve"
    /\ st_resolved' = resolve(st_route, st_request, st_run, st_throws, st_boundary)
    /\ st_pc' = "returning"
    /\ UNCHANGED <<st_route, st_request, st_run, st_throws, st_boundary, st_caught,
                   st_result>>
    /\ UNCHANGED notSettleVars

\* the hook returns resolve's response and respond returns it, or the hook
\* throws after resolve returned
HandleReturns ==
    /\ st_pc = "returning"
    /\ IF st_throws.by = "handle after resolve"
       THEN /\ st_caught' = st_throws.error
            /\ st_pc' = "caught"
            /\ st_result' = st_result
       ELSE /\ st_caught' = st_caught
            /\ st_result' = ResolvesTo(st_resolved)
            /\ st_pc' = "done"
    /\ UNCHANGED <<st_route, st_request, st_run, st_throws, st_boundary, st_resolved>>
    /\ UNCHANGED notSettleVars

\* respond's catch (e)
RespondCatches ==
    /\ st_pc = "caught"
    /\ st_result' = respond_catch(st_route, st_request, st_caught)
    /\ st_pc' = "done"
    /\ UNCHANGED <<st_route, st_request, st_run, st_throws, st_boundary, st_resolved,
                   st_caught>>
    /\ UNCHANGED notSettleVars

SettleNext == HandleRuns \/ ResolveSettles \/ HandleReturns \/ RespondCatches

\* ---- what the claim about respond's result speaks of
\* something threw on the way of this request
SomethingThrew ==
    \/ st_throws.by # "nobody"
    \/ /\ st_route = "page"
       /\ is_action_request(st_request)
       /\ st_run.outcome = "mixed"

\* a redirect: a 3xx with a location, or the JSON a client reads as one
IsRedirectAnswer(resp) ==
    \/ resp.status \in 300..308 /\ "location" \in DOMAIN resp.headers
    \/ \E e \in ThrownValues : e.name = "Redirect" /\ resp = redirect_json_response(e)
    \/ resp.body.type = "json" /\ resp.body.value.type = "redirect"

\* an error page rendered through render_response
IsErrorPage(resp) ==
    /\ resp.status >= 400
    /\ resp.body.type = "html"
    /\ StartsWith(resp.body.text, <<"<", "e", "r", "r", "o", "r", ">">>)

\* the static error document
IsStaticErrorPage(resp) ==
    /\ resp.status >= 400
    /\ resp.body.type = "html"
    /\ resp = static_error_page(resp.status,
                                SubSeq(resp.body.text, 5, Len(resp.body.text)))

\* a JSON body that carries the error's message
IsJsonError(resp) ==
    \/ /\ resp.body.type = "json"
       /\ resp.status >= 400
       /\ resp.body.value.error.message # <<>>
    \/ /\ "content-type" \in DOMAIN resp.headers
       /\ resp.headers["content-type"] = <<"a", "p", "p", "l", "i", "c", "a", "t", "i", "o", "n", "/", "j", "s", "o", "n">>
       /\ resp.body.type = "html"
       /\ \/ resp.status = 500
          \/ StartsWith(resp.body.text, <<"{", "\"", "t", "y", "p", "e", "\"", ":", "\"", "d", "a", "t", "a", "\"", ",", "\"", "n", "o", "d", "e", "s", "\"", ":", "[", "{", "\"", "t", "y", "p", "e", "\"", ":", "\"", "e", "r", "r", "o", "r", "\"">>)

(***************************************************************************)
(* C40: respond resolves to exactly one Response for every request and     *)
(* never rejects when a load function, an action, an endpoint handler or   *)
(* the handle hook throws (the handleError hook and the error template     *)
(* not throwing): every such failure becomes an error page, a JSON error   *)
(* body, a redirect or the static error document.                          *)
(***************************************************************************)
C40_AlwaysOneResponse ==
    /\ st_result.state # "rejected"
    /\ st_result.state = "resolved" <=> st_pc = "done"
    /\ st_pc = "done" =>
          /\ st_result.response # NoResponse
          /\ SomethingThrew =>
                \/ IsRedirectAnswer(st_result.response)
                \/ IsErrorPage(st_result.response)
                \/ IsStaticErrorPage(st_result.response)
                \/ IsJsonError(st_result.response)

\* the handle hook threw an unexpected error after resolve had returned the
\* page: the static error document
C40_Witness ==
    /\ st_pc = "done"
    /\ st_throws = Throws("handle after resolve", PlainError(<<"b", "o", "o", "m">>))
    /\ st_route = "page"
    /\ st_resolved = RenderedPage(200)
    /\ st_result.state = "resolved"
    /\ st_result.response = static_error_page(500, <<"I", "n", "t", "e", "r", "n", "a", "l", " ", "E", "r", "r", "o", "r">>)

\* an endpoint's handler threw an HttpError and the client asked for JSON
C40_EndpointThrew ==
    /\ st_pc = "done"
    /\ st_route = "endpoint"
    /\ st_throws = Throws("endpoint", error(403, <<"n", "o">>))
    /\ st_result.response.status = 403
    /\ IsJsonError(st_result.response)

\* a load threw with no boundary above it, a root layout's load threw while
\* the 404 page was made, and a page with a default action next to named ones
\* got a POST
C40_StaticFromLoad ==
    /\ st_pc = "done"
    /\ st_throws.by = "load"
    /\ st_route = "page"
    /\ IsStaticErrorPage(st_result.response)

C40_RootLoadThrew ==
    /\ st_pc = "done"
    /\ st_route = "none"
    /\ st_throws.by = "root load"
    /\ st_result.response.status = 403

C40_MixedActions ==
    /\ st_pc = "done"
    /\ st_run.outcome = "mixed"
    /\ st_throws = NobodyThrows
    /\ st_result.response.status = 500
    /\ \/ IsErrorPage(st_result.response)
       \/ IsJsonError(st_result.response)

\* once settled, the result stays what it is
C40_SettledOnce ==
    [][st_result.state # "pending" => st_result' = st_result]_vars

(***************************************************************************)
(* Specifications                                                          *)
(***************************************************************************)
InitPath ==
    /\ PathInit
    /\ CookieIdle /\ CspIdle /\ RouteIdle /\ PageIdle /\ EventIdle /\ DataIdle
    /\ StreamIdle /\ ActionIdle /\ FetchIdle /\ RespondIdle /\ ErrorIdle
    /\ DevalueIdle /\ ParentIdle /\ ExecIdle /\ SettleIdle

SpecPath == InitPath /\ [][PathNext]_vars

InitCookies ==
    /\ CookieInit
    /\ PathIdle /\ CspIdle /\ RouteIdle /\ PageIdle /\ EventIdle /\ DataIdle
    /\ StreamIdle /\ ActionIdle /\ FetchIdle /\ RespondIdle /\ ErrorIdle
    /\ DevalueIdle /\ ParentIdle /\ ExecIdle /\ SettleIdle

SpecCookies == InitCookies /\ [][CookieNext]_vars

InitCsp ==
    /\ CspInit
    /\ PathIdle /\ CookieIdle /\ RouteIdle /\ PageIdle /\ EventIdle /\ DataIdle
    /\ StreamIdle /\ ActionIdle /\ FetchIdle /\ RespondIdle /\ ErrorIdle
    /\ DevalueIdle /\ ParentIdle /\ ExecIdle /\ SettleIdle

SpecCsp == InitCsp /\ [][CspNext]_vars

InitRoute ==
    /\ RouteInit
    /\ PathIdle /\ CookieIdle /\ CspIdle /\ PageIdle /\ EventIdle /\ DataIdle
    /\ StreamIdle /\ ActionIdle /\ FetchIdle /\ RespondIdle /\ ErrorIdle
    /\ DevalueIdle /\ ParentIdle /\ ExecIdle /\ SettleIdle

SpecRoute == InitRoute /\ [][RouteNext]_vars

InitEvent ==
    /\ EventInit
    /\ PathIdle /\ CookieIdle /\ CspIdle /\ RouteIdle /\ PageIdle /\ DataIdle
    /\ StreamIdle /\ ActionIdle /\ FetchIdle /\ RespondIdle /\ ErrorIdle
    /\ DevalueIdle /\ ParentIdle /\ ExecIdle /\ SettleIdle

SpecEvent == InitEvent /\ [][EventNext]_vars

InitStream ==
    /\ StreamInit
    /\ PathIdle /\ CookieIdle /\ CspIdle /\ RouteIdle /\ PageIdle /\ EventIdle
    /\ DataIdle /\ ActionIdle /\ FetchIdle /\ RespondIdle /\ ErrorIdle
    /\ DevalueIdle /\ ParentIdle /\ ExecIdle /\ SettleIdle

SpecStream == InitStream /\ [][StreamNext]_vars

InitAction ==
    /\ ActionInit
    /\ PathIdle /\ CookieIdle /\ CspIdle /\ RouteIdle /\ PageIdle /\ EventIdle
    /\ DataIdle /\ StreamIdle /\ FetchIdle /\ RespondIdle /\ ErrorIdle
    /\ DevalueIdle /\ ParentIdle /\ ExecIdle /\ SettleIdle

SpecAction == InitAction /\ [][ActionNext]_vars

InitFetch ==
    /\ FetchInit
    /\ PathIdle /\ CookieIdle /\ CspIdle /\ RouteIdle /\ PageIdle /\ EventIdle
    /\ DataIdle /\ StreamIdle /\ ActionIdle /\ RespondIdle /\ ErrorIdle
    /\ DevalueIdle /\ ParentIdle /\ ExecIdle /\ SettleIdle

SpecFetch == InitFetch /\ [][FetchNext]_vars

InitRespond ==
    /\ RespondInit
    /\ PathIdle /\ CookieIdle /\ CspIdle /\ RouteIdle /\ PageIdle /\ EventIdle
    /\ DataIdle /\ StreamIdle /\ ActionIdle /\ FetchIdle /\ ErrorIdle /\ DevalueIdle
    /\ ParentIdle /\ ExecIdle /\ SettleIdle

SpecRespond == InitRespond /\ [][RespondNext]_vars

InitError ==
    /\ ErrorInit
    /\ PathIdle /\ CookieIdle /\ CspIdle /\ RouteIdle /\ PageIdle /\ EventIdle
    /\ DataIdle /\ StreamIdle /\ ActionIdle /\ FetchIdle /\ RespondIdle
    /\ DevalueIdle /\ ParentIdle /\ ExecIdle /\ SettleIdle

SpecError == InitError /\ [][ErrorNext]_vars

InitDevalue ==
    /\ DevalueInit
    /\ PathIdle /\ CookieIdle /\ CspIdle /\ RouteIdle /\ PageIdle /\ EventIdle
    /\ DataIdle /\ StreamIdle /\ ActionIdle /\ FetchIdle /\ RespondIdle /\ ErrorIdle
    /\ ParentIdle /\ ExecIdle /\ SettleIdle

SpecDevalue == InitDevalue /\ [][DevalueNext]_vars

InitParent ==
    /\ ParentInit
    /\ PathIdle /\ CookieIdle /\ CspIdle /\ RouteIdle /\ PageIdle /\ EventIdle
    /\ DataIdle /\ StreamIdle /\ ActionIdle /\ FetchIdle /\ RespondIdle /\ ErrorIdle
    /\ DevalueIdle /\ ExecIdle /\ SettleIdle

SpecParent == InitParent /\ [][ParentNext]_vars

InitExec ==
    /\ ExecInit
    /\ PathIdle /\ CookieIdle /\ CspIdle /\ RouteIdle /\ PageIdle /\ EventIdle
    /\ DataIdle /\ StreamIdle /\ ActionIdle /\ FetchIdle /\ RespondIdle /\ ErrorIdle
    /\ DevalueIdle /\ ParentIdle /\ SettleIdle

SpecExec == InitExec /\ [][ExecNext]_vars

InitSettle ==
    /\ SettleInit
    /\ PathIdle /\ CookieIdle /\ CspIdle /\ RouteIdle /\ PageIdle /\ EventIdle
    /\ DataIdle /\ StreamIdle /\ ActionIdle /\ FetchIdle /\ RespondIdle /\ ErrorIdle
    /\ DevalueIdle /\ ParentIdle /\ ExecIdle

SpecSettle == InitSettle /\ [][SettleNext]_vars

\* resolve: render_data for a data request, render_page for a page request
Init ==
    /\ \/ PageInit /\ DataIdle
       \/ DataInit /\ PageIdle
    /\ PathIdle /\ CookieIdle /\ CspIdle /\ RouteIdle /\ EventIdle /\ StreamIdle
    /\ ActionIdle /\ FetchIdle /\ RespondIdle /\ ErrorIdle /\ DevalueIdle
    /\ ParentIdle /\ ExecIdle /\ SettleIdle

Next == PageNext \/ DataNext

Spec == Init /\ [][Next]_vars

=============================================================================
